---- MODULE Spec2Model ----
(***************************************************************************)
(* Omega-Prime-Core: decision governance and trade lifecycle.              *)
(*                                                                         *)
(* The model follows src/main.py (record_decision and its helpers),        *)
(* src/api/ledger.py (ingest_decision), src/negotiation.py and             *)
(* src/api/negotiation.py (human review) and src/state_machine.py.         *)
(*                                                                         *)
(* The database is one record, db, holding the committed tables.  A        *)
(* psycopg2 connection runs in its default (non-autocommit) mode: the      *)
(* statements of a handler are buffered in the handler's transaction and   *)
(* reach db only at conn.commit(); closing or dropping the connection      *)
(* without a commit discards them.                                         *)
(***************************************************************************)
EXTENDS Integers, Sequences, FiniteSets, TLC

VARIABLES
    db,        \* the committed tables (see InitDb)
    pc,        \* per worker: position inside record_decision
    call,      \* per worker: the request being served
    txn,       \* per worker: statements of the open transaction
    resp,      \* the response of the last finished request
    clock,     \* number of requests started so far; NOW() of a transaction
    orders,    \* calls for which submit_paper_order was invoked
    gin,       \* SpecGates: the request under evaluation
    gout       \* SpecGates: the outcome of the gate pipeline for gin

vars == <<db, pc, call, txn, resp, clock, orders, gin, gout>>

None == "None"

\* -------------------------------------------------------------------------
\* Bounds of the model
\* -------------------------------------------------------------------------
\* requests that reach persistence; each creates at most one trade
MaxCalls == 2

Workers == {"w1", "w2"}
TradeIds == 1..MaxCalls

\* -------------------------------------------------------------------------
\* Configuration (environment of the process)
\* -------------------------------------------------------------------------
WEBHOOK_KEY == "whk"
\* OMEGA_USERS: GUEST has a role outside the vocabulary, NOTOK has no token
USER_ROLES == [u \in {"JAYLYN", "WIFE", "GUEST", "NOTOK"} |->
                 CASE u = "JAYLYN" -> "ADMIN"
                   [] u = "WIFE" -> "CONFIRM"
                   [] u = "NOTOK" -> "ADMIN"
                   [] OTHER -> "OWNER"]
\* OMEGA_USER_TOKENS: NOROLE has a token and no role
USER_TOKENS == [u \in {"JAYLYN", "WIFE", "GUEST", "NOROLE"} |->
                 CASE u = "JAYLYN" -> "tokA"
                   [] u = "WIFE" -> "tokC"
                   [] u = "NOROLE" -> "tokN"
                   [] OTHER -> "tokG"]
EQUITY_SYMBOLS == {"SPY", "QQQ", "AAPL", "TSLA", "NVDA", "MSFT"}
CRYPTO_SYMBOLS == {"BTCUSD", "ETHUSD", "SOLUSD"}
ENV_KILL_SWITCH_DEFAULT == FALSE
ENV_MODE_DEFAULT == "EQUITY"
DEFAULT_MODE == "PAPER"
BLOCKED_SESSIONS == {"NY"}

\* str.strip().upper() on the strings the model feeds in
StripUpper(s) ==
    CASE s = " spy" -> "SPY"
      [] s = "jaylyn" -> "JAYLYN"
      [] s = "equity" -> "EQUITY"
      [] s = "crypto" -> "CRYPTO"
      [] s = " deny" -> "DENY"
      [] OTHER -> s

\* str.strip() on the strings the model feeds in
Strip(s) ==
    CASE s = " spy" -> "spy"
      [] s = "whk " -> "whk"
      [] s = "tokA " -> "tokA"
      [] OTHER -> s

\* -------------------------------------------------------------------------
\* Settings resolver
\* -------------------------------------------------------------------------
\* a resolver that never looks at the table
get_setting_default_only(d, key, default) == default

get_setting(d, key, default) ==
    IF key \in DOMAIN d.settings THEN d.settings[key] ELSE default

effective_kill_switch(d) ==
    get_setting(d, "kill_switch", IF ENV_KILL_SWITCH_DEFAULT THEN "true" ELSE "false")
        = "true"

effective_market_mode(d) ==
    LET v == StripUpper(get_setting(d, "market_mode", ENV_MODE_DEFAULT))
    IN IF v \in {"EQUITY", "CRYPTO"} THEN v ELSE "EQUITY"

\* -------------------------------------------------------------------------
\* Identity
\* -------------------------------------------------------------------------
\* Python truthiness of an optional string
Truthy(s) == s \notin {None, ""}

\* an identity resolver that trusts the user id and compares no token
resolve_identity_without_token(x_user_id, x_user_token) ==
    IF ~Truthy(x_user_id) THEN [uid |-> "ANON", role |-> "READ"]
    ELSE LET uid == StripUpper(x_user_id)
             role == IF uid \in DOMAIN USER_ROLES THEN StripUpper(USER_ROLES[uid]) ELSE "READ"
         IN [uid |-> uid,
             role |-> IF role \in {"READ", "CONFIRM", "ADMIN"} THEN role ELSE "READ"]

resolve_identity(x_user_id, x_user_token) ==
    IF ~Truthy(x_user_id) THEN [uid |-> "ANON", role |-> "READ"]
    ELSE LET uid == StripUpper(x_user_id)
             expected_token == IF uid \in DOMAIN USER_TOKENS THEN USER_TOKENS[uid] ELSE None
         IN IF ~Truthy(expected_token) THEN [uid |-> uid, role |-> "READ"]
            ELSE IF ~Truthy(x_user_token) \/ Strip(x_user_token) # expected_token
                 THEN [uid |-> uid, role |-> "READ"]
            ELSE LET role == IF uid \in DOMAIN USER_ROLES
                             THEN StripUpper(USER_ROLES[uid]) ELSE "READ"
                 IN [uid |-> uid,
                     role |-> IF role \in {"READ", "CONFIRM", "ADMIN"} THEN role ELSE "READ"]

\* a check that takes any supplied webhook key
WebhookKeyAny(key) == TRUE

\* AUTH ROUTING of record_decision: webhook key or human identity
WebhookKeyValid(key) == Truthy(WEBHOOK_KEY) /\ Strip(key) = WEBHOOK_KEY

RouteIdentity(req) ==
    IF req.webhook_key # None
    THEN IF WebhookKeyValid(req.webhook_key)
         THEN [uid |-> "TRADINGVIEW", role |-> "ADMIN"]
         ELSE [uid |-> "UNRESOLVED", role |-> "UNRESOLVED"]
    ELSE resolve_identity(req.user_id, req.user_token)

\* -------------------------------------------------------------------------
\* Universe
\* -------------------------------------------------------------------------
\* a universe that is the same in every market mode
symbol_allowed_in_any_mode(d, symbol) ==
    StripUpper(symbol) \in EQUITY_SYMBOLS \cup CRYPTO_SYMBOLS

symbol_allowed(d, symbol) ==
    LET mode == effective_market_mode(d)
        s == StripUpper(symbol)
    IN IF mode = "EQUITY" THEN s \in EQUITY_SYMBOLS ELSE s \in CRYPTO_SYMBOLS

\* -------------------------------------------------------------------------
\* Execution adapter
\* -------------------------------------------------------------------------
resolve_execution_mode(payload) == DEFAULT_MODE

session_allowed(session) == session \notin BLOCKED_SESSIONS

\* sess = d.session or d.payload.session
EffectiveSession(req) == IF Truthy(req.session) THEN req.session ELSE req.psession

\* -------------------------------------------------------------------------
\* External policy evaluator
\* -------------------------------------------------------------------------
\* A result is [shape, key, val, head, reason]:
\*   shape "none"  : None
\*   shape "bool"  : val
\*   shape "dict"  : {key: val, "reason": reason}   (key "-" : no verdict key)
\*   shape "tuple" : (head, reason), head a string, or val when head = "bool"
\*   shape "other" : any other object
_coerce_sm_result(result) ==
    CASE result.shape = "none" -> [allowed |-> TRUE, reason |-> None]
      [] result.shape = "bool" -> [allowed |-> result.val, reason |-> None]
      [] result.shape = "dict" ->
            [allowed |-> CASE result.key = "allowed" -> result.val
                           [] result.key = "deny" -> ~result.val
                           [] result.key = "ok" -> result.val
                           [] OTHER -> TRUE,
             reason |-> IF Truthy(result.reason) THEN result.reason ELSE None]
      [] result.shape = "tuple" ->
            [allowed |-> IF result.head = "bool" THEN result.val
                         ELSE IF StripUpper(result.head) \in {"DENY", "BLOCK", "REJECT", "NO"}
                              THEN FALSE
                         ELSE TRUE,
             reason |-> result.reason]
      [] OTHER -> [allowed |-> TRUE, reason |-> "str(result)"]

\* a reason that is not a string: a list of reason codes
ReasonCodes == "['LOW_CONF']"
IsStr(x) == x # ReasonCodes

\* An evaluator is [kind, result, exc]:
\*   kind "absent" : no statemachine module or no callable in it (_SM_FN is None)
\*   kind "return" : the call returns result
\*   kind "raise"  : the call raises exc (after the TypeError retries)
\* The outcome is [outcome, code, reason, note]: "allow", "deny" (the handler's own
\* HTTPException 403) or "raise" (an exception leaving the handler).  The detail
\* of the denial is built by ': ' + reason, which raises TypeError for a reason
\* that is not a string; the TypeError is caught as an evaluator error.
enforce_decision_state_machine(sm) ==
    IF sm.kind = "absent"
    THEN [outcome |-> "allow", code |-> 200, reason |-> None,
          note |-> "statemachine callable not found; skipped"]
    ELSE IF sm.kind = "raise"
    THEN IF sm.exc = "HTTPException"
         THEN [outcome |-> "raise", code |-> 500, reason |-> sm.exc, note |-> None]
         ELSE [outcome |-> "allow", code |-> 200, reason |-> None,
               note |-> "statemachine error bypassed"]
    ELSE LET c == _coerce_sm_result(sm.result)
         IN IF ~c.allowed /\ Truthy(c.reason) /\ ~IsStr(c.reason)
            THEN [outcome |-> "allow", code |-> 200, reason |-> None,
                  note |-> "statemachine error bypassed"]
            ELSE IF ~c.allowed
            THEN [outcome |-> "deny", code |-> 403, reason |-> c.reason, note |-> None]
            ELSE [outcome |-> "allow", code |-> 200, reason |-> None, note |-> None]

\* -------------------------------------------------------------------------
\* The gates of record_decision, in the order the handler runs them
\* -------------------------------------------------------------------------
\* the governor's confidence threshold ahead of field validation
GateOrderGovernorFirst ==
    <<"webhook_key", "authority", "universe", "confidence", "decision", "stance", "range",
      "tier", "session", "exec_session", "policy">>

\* field validation without the confidence range
GateOrderWithoutRange ==
    <<"webhook_key", "authority", "universe", "decision", "stance",
      "confidence", "tier", "session", "exec_session", "policy">>

\* a governor that looks at the tier before the confidence
GateOrderTierFirst ==
    <<"webhook_key", "authority", "universe", "decision", "stance", "range",
      "tier", "confidence", "session", "exec_session", "policy">>

GateOrder ==
    <<"webhook_key", "authority", "universe", "decision", "stance", "range",
      "confidence", "tier", "session", "exec_session", "policy">>

\* Whether request req fails gate g, read against database d
GateFails(g, req, d) ==
    CASE g = "webhook_key" ->
            req.webhook_key # None /\ ~WebhookKeyValid(req.webhook_key)
      [] g = "authority" -> RouteIdentity(req).role # "ADMIN"
      [] g = "universe" -> ~symbol_allowed(d, req.symbol)
      [] g = "decision" ->
            req.decision \notin {"BUY", "SELL", "EXIT", "HOLD", "ENTER LONG", "ENTER SHORT"}
      [] g = "stance" -> req.stance \notin {"ENTER", "HOLD", "STAND_DOWN", "DENIED"}
      [] g = "range" -> ~(0 <= req.confidence /\ req.confidence <= 100)
      [] g = "confidence" -> req.confidence < 70
      [] g = "tier" -> req.tier \in {"O-slash", "S-", "C", "D"}
      [] g = "session" ->
            Truthy(EffectiveSession(req)) /\ EffectiveSession(req) \notin {"RTH", "ETH"}
      [] g = "exec_session" -> ~session_allowed(EffectiveSession(req))
      [] g = "policy" -> enforce_decision_state_machine(req.sm).outcome # "allow"

\* The HTTP error gate g raises: status code and detail
GateDenial(g, req, d) ==
    CASE g = "webhook_key" -> [code |-> 403, detail |-> "Invalid webhook key"]
      [] g = "authority" -> [code |-> 403, detail |-> "Permission denied: ADMIN required"]
      [] g = "universe" -> [code |-> 403, detail |-> "Denied: symbol not allowed in mode"]
      [] g = "decision" -> [code |-> 400, detail |-> "Invalid decision"]
      [] g = "stance" -> [code |-> 400, detail |-> "Invalid stance"]
      [] g = "range" -> [code |-> 400, detail |-> "Confidence out of range"]
      [] g = "confidence" -> [code |-> 403, detail |-> "Denied: confidence gate"]
      [] g = "tier" -> [code |-> 403, detail |-> "Denied: tier gate"]
      [] g = "session" -> [code |-> 403, detail |-> "Denied: session gate"]
      [] g = "exec_session" -> [code |-> 403, detail |-> "Denied: execution session"]
      [] g = "policy" ->
            LET r == enforce_decision_state_machine(req.sm)
            IN IF r.outcome = "deny"
               THEN [code |-> 403, detail |-> "Denied by Decision State Machine"]
               ELSE [code |-> r.code, detail |-> "raised by the policy evaluator"]

\* The sequence of if ... raise of record_decision, from gate i on: the first
\* failing gate raises and nothing after it runs.  evaluated lists the gates run.
RECURSIVE RunGates(_, _, _, _)
RunGates(i, req, d, evaluated) ==
    IF i > Len(GateOrder)
    THEN [passed |-> TRUE, gate |-> None, code |-> 200, detail |-> "passed",
          evaluated |-> evaluated]
    ELSE LET g == GateOrder[i]
         IN IF GateFails(g, req, d)
            THEN [passed |-> FALSE, gate |-> g, code |-> GateDenial(g, req, d).code,
                  detail |-> GateDenial(g, req, d).detail,
                  evaluated |-> Append(evaluated, g)]
            ELSE RunGates(i + 1, req, d, Append(evaluated, g))

RecordGates(req, d) == RunGates(1, req, d, << >>)

\* -------------------------------------------------------------------------
\* The database
\* -------------------------------------------------------------------------
\* settings      : omega_settings, key -> value
\* ledger        : decision_ledger, in insertion order; a row's id is its position
\* negotiation   : decision_negotiation, decision id -> row
\* trades        : trades, trade id -> row
\* trade_events  : trade_events, in insertion order
\* regime_memory : regime_memory, <<symbol, timeframe>> -> regime
\* symbol_whitelist : symbol_whitelist (read only in this repository)
\* The field call of a row is the request that wrote it; it is not a column.
\* A NULL timestamp and a missing trade id are written 0.
Empty == [x \in {} |-> x]

InitDb ==
    [settings |-> Empty,
     ledger |-> << >>,
     negotiation |-> Empty,
     trades |-> Empty,
     trade_events |-> << >>,
     regime_memory |-> Empty,
     symbol_whitelist |-> {"SPY", "BTCUSD"}]

HasTradeId(t) == t # 0

infer_side(decision) ==
    IF decision \in {"ENTER LONG", "BUY"} THEN "LONG"
    ELSE IF decision \in {"ENTER SHORT", "SELL"} THEN "SHORT"
    ELSE None

\* INSERT INTO trades ... VALUES (tid, symbol, side, 'OPEN', NOW(), meta)
create_trade(d, op) ==
    [d EXCEPT !.trades = (op.tid :> [symbol |-> op.symbol, side |-> op.side,
                                     status |-> "OPEN", opened_at |-> op.at,
                                     closed_at |-> 0, call |-> op.call,
                                     closed_by |-> 0,
                                     market_mode |-> op.market_mode]) @@ @]

\* an update that leaves the status column alone
close_trade_keeps_status(d, op) ==
    IF op.tid \in DOMAIN d.trades
    THEN [d EXCEPT !.trades[op.tid].closed_at = op.at,
                   !.trades[op.tid].closed_by = op.call]
    ELSE d

\* UPDATE trades SET status = 'CLOSED', closed_at = NOW() WHERE trade_id = tid
close_trade(d, op) ==
    IF op.tid \in DOMAIN d.trades
    THEN [d EXCEPT !.trades[op.tid].status = "CLOSED",
                   !.trades[op.tid].closed_at = op.at,
                   !.trades[op.tid].closed_by = op.call]
    ELSE d

\* the row an event statement inserts
EventRow(op) ==
    [trade_id |-> op.tid, event_type |-> op.event_type, user_id |-> op.user_id,
     role |-> op.role, call |-> op.call]

\* an upsert keyed by trade id and event type: a later event of the same type
\* takes the place of the earlier one
write_trade_event_upsert(d, op) ==
    [d EXCEPT !.trade_events =
        Append(SelectSeq(@, LAMBDA e : ~(e.trade_id = op.tid
                                          /\ e.event_type = op.event_type)),
               EventRow(op))]

\* INSERT INTO trade_events (trade_id, event_type, user_id, role, data)
write_trade_event(d, op) ==
    [d EXCEPT !.trade_events = Append(@, EventRow(op))]

\* an insert that leaves an existing row as it is (ON CONFLICT DO NOTHING)
set_setting_keep_first(d, key, value) ==
    IF key \in DOMAIN d.settings THEN d
    ELSE [d EXCEPT !.settings = (key :> value) @@ @]

\* INSERT INTO omega_settings ... ON CONFLICT (key) DO UPDATE SET value = ...:
\* the table after set_setting(key, value) has committed
set_setting(d, key, value) ==
    [d EXCEPT !.settings = (key :> value) @@ @]

\* The effect of one SQL statement on the tables
Apply(d, op) ==
    CASE op.kind = "create_trade" -> create_trade(d, op)
      [] op.kind = "setting" -> set_setting(d, op.key, op.value)
      [] op.kind = "close_trade" -> close_trade(d, op)
      [] op.kind = "trade_event" -> write_trade_event(d, op)
      [] op.kind = "ledger" ->
            [d EXCEPT !.ledger = Append(@, [op.row EXCEPT !.id = Len(d.ledger) + 1])]
      [] op.kind = "negotiation" ->
            \* ON CONFLICT DO NOTHING; the row's decision id is the id the ledger
            \* insert of the same transaction returned
            IF Len(d.ledger) \in DOMAIN d.negotiation THEN d
            ELSE [d EXCEPT !.negotiation =
                    (Len(d.ledger) :> [status |-> "PENDING", human_action |-> None,
                                       call |-> op.call]) @@ @]
      [] op.kind = "regime_memory" ->
            [d EXCEPT !.regime_memory =
                (<<op.symbol, op.timeframe>> :> op.regime) @@ @]
      [] OTHER -> d

RECURSIVE ApplyAll(_, _)
ApplyAll(d, ops) ==
    IF ops = << >> THEN d ELSE ApplyAll(Apply(d, Head(ops)), Tail(ops))

\* a connection in autocommit mode: each statement reaches the tables at once
AfterStatementAutocommit(d, buf, op) == [db |-> Apply(d, op), buf |-> buf]

\* cur.execute inside an open transaction: the statement is held by the
\* transaction and the committed tables do not change
AfterStatement(d, buf, op) == [db |-> d, buf |-> Append(buf, op)]

RECURSIVE AfterStatements(_, _, _)
AfterStatements(d, buf, ops) ==
    IF ops = << >> THEN [db |-> d, buf |-> buf]
    ELSE LET s == AfterStatement(d, buf, Head(ops))
         IN AfterStatements(s.db, s.buf, Tail(ops))

\* conn.commit(): the statements of the transaction reach the tables
Commit(d, buf) == ApplyAll(d, buf)

\* a close that commits what the transaction holds
CloseCommits(d, buf) == ApplyAll(d, buf)

\* conn.close(), or the connection dropped by an exception, without a commit:
\* the statements of the transaction are discarded
Rollback(d, buf) == d

\* what the statements of a transaction see: the committed rows and its own
TxnView(d, buf) == ApplyAll(d, buf)

\* a trade_events table declared without the reference
ForeignKeyUnchecked(d, buf, tid) == TRUE

\* trade_events.trade_id REFERENCES trades(trade_id)
ForeignKeyHolds(d, buf, tid) == tid \in DOMAIN TxnView(d, buf).trades

\* uuid.uuid4(): an id no trade row and no open transaction holds
RECURSIVE BufTradeIds(_)
BufTradeIds(buf) ==
    IF buf = << >> THEN {}
    ELSE (IF Head(buf).kind = "create_trade" THEN {Head(buf).tid} ELSE {})
         \cup BufTradeIds(Tail(buf))

UsedTradeIds == DOMAIN db.trades \cup UNION {BufTradeIds(txn[w]) : w \in Workers}

\* an id generator that hands out the same id again
first_trade_id == CHOOSE t \in TradeIds : \A u \in TradeIds : t <= u

new_trade_id == CHOOSE t \in TradeIds \ UsedTradeIds :
                    \A u \in TradeIds \ UsedTradeIds : t <= u

\* -------------------------------------------------------------------------
\* Requests the model feeds in
\* -------------------------------------------------------------------------
NoneResult == [shape |-> "none", key |-> None, val |-> TRUE, head |-> None, reason |-> None]
Absent == [kind |-> "absent", result |-> NoneResult, exc |-> None]
Raises(e) == [kind |-> "raise", result |-> NoneResult, exc |-> e]
Returns(r) == [kind |-> "return", result |-> r, exc |-> None]
BoolResult(b) == [shape |-> "bool", key |-> None, val |-> b, head |-> None, reason |-> None]
DictResult(k, b) ==
    [shape |-> "dict", key |-> k, val |-> b, head |-> None, reason |-> "policy"]
TupleResult(h) ==
    [shape |-> "tuple", key |-> None, val |-> TRUE, head |-> h, reason |-> "policy"]
\* an accepted webhook ENTER for SPY, the request the others vary
BaseRequest ==
    [symbol |-> "SPY", decision |-> "BUY", stance |-> "ENTER", confidence |-> 85,
     tier |-> "A", session |-> None, psession |-> None, trade_id |-> 0,
     user_id |-> None, user_token |-> None, webhook_key |-> "whk", sm |-> Absent]

Kinds == {<<"BUY", "ENTER">>, <<"EXIT", "HOLD">>}

\* a trade id no trade carries
UnknownTradeId == MaxCalls + 1

LifecycleRequests ==
    {[BaseRequest EXCEPT !.decision = k[1], !.stance = k[2], !.trade_id = t] :
        k \in Kinds, t \in TradeIds \cup {UnknownTradeId}}
    \cup {BaseRequest,
          [BaseRequest EXCEPT !.decision = "EXIT"],
          [BaseRequest EXCEPT !.decision = "HOLD", !.stance = "HOLD"]}

GateRequests ==
    {[BaseRequest EXCEPT !.webhook_key = "bad"],
     [BaseRequest EXCEPT !.webhook_key = None, !.user_id = "WIFE", !.user_token = "tokC"],
     [BaseRequest EXCEPT !.symbol = "BTCUSD"],
     [BaseRequest EXCEPT !.decision = "LONG"],
     [BaseRequest EXCEPT !.stance = "WAIT"],
     [BaseRequest EXCEPT !.confidence = 101],
     [BaseRequest EXCEPT !.confidence = 50],
     [BaseRequest EXCEPT !.tier = "C"],
     [BaseRequest EXCEPT !.session = "LONDON"],
     [BaseRequest EXCEPT !.sm = Returns(BoolResult(FALSE))],
     [BaseRequest EXCEPT !.sm = Raises("HTTPException")]}

RecordRequests == LifecycleRequests \cup GateRequests

BaseIngest ==
    [symbol |-> "SPY", timeframe |-> "1h", stance |-> "HOLD_LONG", regime |-> "EXPANSION",
     exit_reason |-> "NONE", exit_quality |-> None, confidence |-> {}]

IngestRequests ==
    {BaseIngest,
     [BaseIngest EXCEPT !.stance = "ENTER_LONG"],
     [BaseIngest EXCEPT !.symbol = "ZZZ"],
     [BaseIngest EXCEPT !.exit_quality = "GOOD"],
     [BaseIngest EXCEPT !.stance = "ENTER_LONG", !.regime = "COMPRESSION"],
     [BaseIngest EXCEPT !.stance = "ENTER_LONG", !.regime = "COMPRESSION",
                        !.exit_quality = "GOOD"]}

Credentials ==
    {[user_id |-> None, user_token |-> None],
     [user_id |-> "WIFE", user_token |-> "tokC"],
     [user_id |-> "JAYLYN", user_token |-> "tokA"]}

Roles == {"READ", "CONFIRM", "ADMIN"}
DecisionIds == 1..MaxCalls

\* -------------------------------------------------------------------------
\* record_decision
\* -------------------------------------------------------------------------
\* a response: its kind ("recorded", "ok", "rejected" by a gate, "error" after the
\* gates), the HTTP status code, and for a rejection or an error the handler
\* that raised it (detail names the raise)
Response(status, code, detail, handler) ==
    [status |-> status, code |-> code, handler |-> handler]

NoResponse == Response("none", 0, None, None)
IdleCall ==
    [req |-> BaseRequest, cid |-> 0, uid |-> None, role |-> None, sess |-> None,
     trade_id |-> 0, note |-> None, market_mode |-> None]

\* an event statement that records every event as a decision node
EventAlwaysDecision(c, tid, type) ==
    [kind |-> "trade_event", tid |-> tid, event_type |-> "DECISION", user_id |-> c.uid,
     role |-> c.role, call |-> c.cid]

Event(c, tid, type) ==
    [kind |-> "trade_event", tid |-> tid, event_type |-> type, user_id |-> c.uid,
     role |-> c.role, call |-> c.cid]

\* the gates (lines 575-622); a request that passes opens its transaction.  A
\* uuid4 cannot be guessed: the trade id a caller supplies is the id of a trade
\* committed before the request, or of no trade at all.
RD_Begin(w, req) ==
    /\ pc[w] = "idle"
    /\ HasTradeId(req.trade_id) => req.trade_id \in DOMAIN db.trades \cup {UnknownTradeId}
    /\ LET g == RecordGates(req, db)
           who == RouteIdentity(req)
       IN IF g.passed
          THEN /\ clock < MaxCalls
               /\ clock' = clock + 1
               /\ pc' = [pc EXCEPT ![w] = "graph"]
               /\ call' = [call EXCEPT ![w] =
                     [req |-> req, cid |-> clock + 1, uid |-> who.uid, role |-> who.role,
                      sess |-> EffectiveSession(req), trade_id |-> req.trade_id,
                      note |-> enforce_decision_state_machine(req.sm).note,
                      market_mode |-> None]]
               /\ txn' = [txn EXCEPT ![w] = << >>]
               /\ UNCHANGED resp
          ELSE /\ resp' = Response("rejected", g.code, g.detail, "record_decision")
               /\ UNCHANGED <<pc, call, txn, clock>>
    /\ UNCHANGED <<db, orders, gin, gout>>

\* a handler that creates a trade on every ENTER
CreatesTradeAlways(req, trade_id) == req.stance = "ENTER"

\* whether the handler creates a trade (line 637)
CreatesTrade(req, trade_id) == req.stance = "ENTER" /\ ~HasTradeId(trade_id)

\* an exception after the gates, raised with the tables at d and the
\* transaction holding buf: the connection is dropped
Abort(w, d, buf, detail) ==
    /\ db' = Rollback(d, buf)
    /\ pc' = [pc EXCEPT ![w] = "idle"]
    /\ txn' = [txn EXCEPT ![w] = << >>]
    /\ call' = [call EXCEPT ![w] = IdleCall]
    /\ resp' = Response("error", 500, detail, "record_decision")

\* The statements of lines 634-697 for call c, in order: create trade on ENTER if
\* missing, with its OPEN event; if EXIT and trade_id exists, close trade and EXIT
\* event; always a DECISION event if trade_id exists.  tid is the id uuid4 gives.
GraphStatements(c, tid) ==
    LET creates == CreatesTrade(c.req, c.trade_id)
        trade_id == IF creates THEN tid ELSE c.trade_id
    IN (IF creates
        THEN <<[kind |-> "create_trade", tid |-> trade_id,
                symbol |-> StripUpper(c.req.symbol), side |-> infer_side(c.req.decision),
                at |-> c.cid, call |-> c.cid, market_mode |-> c.market_mode],
               Event(c, trade_id, "OPEN")>>
        ELSE << >>)
       \o (IF c.req.decision = "EXIT" /\ HasTradeId(trade_id)
           THEN <<[kind |-> "close_trade", tid |-> trade_id, at |-> c.cid, call |-> c.cid],
                  Event(c, trade_id, "EXIT")>>
           ELSE << >>)
       \o (IF HasTradeId(trade_id) THEN <<Event(c, trade_id, "DECISION")>> ELSE << >>)

\* cur.execute of each statement in turn.  An insert into trade_events whose trade
\* does not exist raises; k is the number of statements persistence serves before
\* it fails (k >= Len(stmts): it does not fail).
RECURSIVE RunStatements(_, _, _, _)
RunStatements(d, buf, stmts, k) ==
    IF stmts = << >> THEN [db |-> d, buf |-> buf, raised |-> None]
    ELSE IF k = 0 THEN [db |-> d, buf |-> buf, raised |-> "OperationalError"]
    ELSE LET op == Head(stmts)
         IN IF op.kind = "trade_event" /\ ~ForeignKeyHolds(d, buf, op.tid)
            THEN [db |-> d, buf |-> buf, raised |-> "ForeignKeyViolation"]
            ELSE LET s == AfterStatement(d, buf, op)
                 IN RunStatements(s.db, s.buf, Tail(stmts), k - 1)

FailPoints == 0..5

\* the trade memory graph (lines 634-697); the metadata of a new trade holds
\* the market mode read when the trade is created (line 643)
RD_Graph(w, k) ==
    /\ pc[w] = "graph"
    /\ LET creates == CreatesTrade(call[w].req, call[w].trade_id)
           c == [call[w] EXCEPT !.market_mode =
                                    IF creates THEN effective_market_mode(db) ELSE None]
       IN /\ creates => TradeIds \ UsedTradeIds # {}
          /\ LET tid == IF creates THEN new_trade_id ELSE c.trade_id
                 stmts == GraphStatements(c, tid)
                 r == RunStatements(db, txn[w], stmts, k)
             IN /\ k <= Len(stmts)
                /\ IF r.raised = None
                   THEN /\ db' = r.db
                        /\ txn' = [txn EXCEPT ![w] = r.buf]
                        /\ call' = [call EXCEPT ![w].trade_id = tid,
                                                 ![w].market_mode = c.market_mode]
                        /\ pc' = [pc EXCEPT ![w] = "persist"]
                        /\ UNCHANGED resp
                   ELSE Abort(w, r.db, r.buf, r.raised)
    /\ UNCHANGED <<clock, orders, gin, gout>>

\* execution that does not read the kill switch
ExecutedWhateverTheSwitch(d, c, submitted) ==
    IF resolve_execution_mode(c.req) = "PAPER" /\ c.req.stance = "ENTER"
    THEN submitted \cup {c.cid}
    ELSE submitted

\* execution, kill switch enforced (lines 699-701): the orders submitted once
\* the request in flight c has been through it
Executed(d, c, submitted) ==
    IF ~effective_kill_switch(d)
       /\ resolve_execution_mode(c.req) = "PAPER"
       /\ c.req.stance = "ENTER"
    THEN submitted \cup {c.cid}
    ELSE submitted

\* a ledger row that leaves the trade_id column empty
LedgerRowWithoutTrade(c) ==
    [id |-> 0, call |-> c.cid, source |-> "record_decision", symbol |-> c.req.symbol,
     decision |-> c.req.decision, stance |-> c.req.stance,
     confidence |-> c.req.confidence, tier |-> c.req.tier, session |-> c.sess,
     regime |-> None, trade_id |-> 0]

LedgerRow(c) ==
    [id |-> 0, call |-> c.cid, source |-> "record_decision", symbol |-> c.req.symbol,
     decision |-> c.req.decision, stance |-> c.req.stance,
     confidence |-> c.req.confidence, tier |-> c.req.tier, session |-> c.sess,
     regime |-> None, trade_id |-> c.trade_id]

\* execution, INSERT INTO decision_ledger, conn.commit() and the response
\* (lines 699-759); fail: persistence fails at the insert, at the commit, or
\* not at all
RD_Persist(w, fail) ==
    /\ pc[w] = "persist"
    /\ orders' = Executed(db, call[w], orders)
    /\ LET s == RunStatements(db, txn[w],
                              <<[kind |-> "ledger", row |-> LedgerRow(call[w])]>>,
                              IF fail = "insert" THEN 0 ELSE 1)
       IN IF s.raised = None /\ fail = "none"
          THEN /\ db' = Commit(s.db, s.buf)
               /\ resp' = Response("recorded", 200, "recorded", None)
               /\ pc' = [pc EXCEPT ![w] = "idle"]
               /\ txn' = [txn EXCEPT ![w] = << >>]
               /\ call' = [call EXCEPT ![w] = IdleCall]
          ELSE Abort(w, s.db, s.buf, "OperationalError")
    /\ UNCHANGED <<clock, gin, gout>>

\* -------------------------------------------------------------------------
\* ingest_decision (src/api/ledger.py)
\* -------------------------------------------------------------------------
\* the vocabularies of src/models/enums.py
Stances ==
    {"ENTER_LONG", "ENTER_SHORT", "HOLD_LONG", "HOLD_SHORT", "HOLD_LONG_PAID",
     "HOLD_SHORT_PAID", "STAND_DOWN", "WAIT"}
Regimes == {"COMPRESSION", "EXPANSION", "NEUTRAL"}
ExitReasons ==
    {"CRYPTO_TIMEOUT", "DISTRIBUTION", "MOMENTUM_FADE", "REGIME_SHIFT", "HTF_CONFLICT",
     "TIME_DECAY", "NONE"}
ExitQualities == {"EARLY", "GOOD", "LATE"}

\* hasattr(ExitReasonEnum, "HUMAN_EXIT"): the enum of models/enums.py has no such member
HasHumanExit == "HUMAN_EXIT" \in ExitReasons

IngestRow(e, cid) ==
    [id |-> 0, call |-> cid, source |-> "ingest_decision", symbol |-> e.symbol,
     decision |-> None, stance |-> e.stance, confidence |-> 0, tier |-> None,
     session |-> None, regime |-> e.regime, trade_id |-> 0]

\* DecisionIngest.validate_confidence: the validator of the optional confidence.
\* v is the set of the integers given: empty for None, one integer otherwise.
validate_confidence(v) ==
    IF v = {} THEN "ok"
    ELSE IF \E n \in v : ~(0 <= n /\ n <= 100) THEN "ValueError"
    ELSE "ok"

\* a regime gate that knows the long entry only
EnteringStancesLongOnly == {"ENTER_LONG"}

\* the stances the regime gate refuses during COMPRESSION
EnteringStances == {"ENTER_LONG", "ENTER_SHORT"}

\* a request model that takes any string for an enumerated field
DecisionIngestAnyString(e) == validate_confidence(e.confidence) = "ok"

\* the request model DecisionIngest: the enumerated fields hold members of
\* their enums (the optional ones may be null) and the confidence validates
DecisionIngestValid(e) ==
    /\ e.stance \in Stances
    /\ e.regime \in Regimes
    /\ e.exit_reason \in ExitReasons \cup {None}
    /\ e.exit_quality \in ExitQualities \cup {None}
    /\ validate_confidence(e.confidence) = "ok"

\* the compression check taken before the two exit checks
governance_denial_regime_first(e) ==
    IF e.regime = "COMPRESSION" /\ e.stance \in EnteringStances
    THEN "Cannot ENTER trades during COMPRESSION regime"
    ELSE IF Truthy(e.exit_quality) /\ e.exit_reason = "NONE"
    THEN "exit_quality requires exit_reason"
    ELSE IF HasHumanExit /\ e.exit_reason = "HUMAN_EXIT" /\ ~Truthy(e.exit_quality)
    THEN "HUMAN_EXIT requires exit_quality"
    ELSE None

\* The governance checks that follow the regime_memory upsert, in the order
\* of the handler: the two exit checks, then the COMPRESSION check.  The
\* detail of the first that raises, None when all pass.
governance_denial(e) ==
    IF Truthy(e.exit_quality) /\ e.exit_reason = "NONE"
    THEN "exit_quality requires exit_reason"
    ELSE IF HasHumanExit /\ e.exit_reason = "HUMAN_EXIT" /\ ~Truthy(e.exit_quality)
    THEN "HUMAN_EXIT requires exit_quality"
    ELSE IF e.regime = "COMPRESSION" /\ e.stance \in EnteringStances
    THEN "Cannot ENTER trades during COMPRESSION regime"
    ELSE None

\* The request from its validation to the handler's return or raise: the tables
\* it leaves behind, its response and the detail of the response.  A body the
\* request model refuses is answered 422 before the handler runs.  fails:
\* persistence fails before the commit.
IngestRun(d, e, cid, fails) ==
    IF ~DecisionIngestValid(e)
    THEN [db |-> d, detail |-> "validation error",
          resp |-> Response("rejected", 422, "validation error", "ingest_decision")]
    ELSE IF e.symbol \notin d.symbol_whitelist
    THEN [db |-> d, detail |-> "Symbol not allowed",
          resp |-> Response("rejected", 403, "Symbol not allowed", "ingest_decision")]
    ELSE IF e.regime \notin Regimes
    THEN [db |-> d, detail |-> "Invalid regime",
          resp |-> Response("rejected", 400, "Invalid regime", "ingest_decision")]
    ELSE LET s1 == AfterStatement(d, << >>,
                     [kind |-> "regime_memory", symbol |-> e.symbol,
                      timeframe |-> e.timeframe, regime |-> e.regime])
             denial == governance_denial(e)
         IN IF denial # None
            THEN [db |-> Rollback(s1.db, s1.buf), detail |-> denial,
                  resp |-> Response("rejected", 400, denial, "ingest_decision")]
            ELSE LET s2 == AfterStatements(s1.db, s1.buf,
                              <<[kind |-> "ledger", row |-> IngestRow(e, cid)],
                                [kind |-> "negotiation", call |-> cid]>>)
                 IN IF fails
                    THEN [db |-> Rollback(s2.db, s2.buf), detail |-> "OperationalError",
                          resp |-> Response("error", 500, "OperationalError",
                                          "ingest_decision")]
                    ELSE [db |-> Commit(s2.db, s2.buf), detail |-> "ok",
                          resp |-> Response("ok", 200, "ok", None)]

\* what the request leaves behind: r is its run, IngestRun
IngestAnswer(r, fails) ==
    /\ db' = r.db
    /\ resp' = r.resp
    /\ IF r.resp.status = "rejected" THEN UNCHANGED clock
       ELSE clock < MaxCalls /\ clock' = clock + 1
    /\ fails => r.resp.status = "error"

ingest_decision(e, fails) ==
    /\ IngestAnswer(IngestRun(db, e, clock + 1, fails), fails)
    /\ UNCHANGED <<pc, call, txn, orders, gin, gout>>

\* -------------------------------------------------------------------------
\* Human review
\* -------------------------------------------------------------------------
TRANSITIONS ==
    [c \in {"PENDING", "CONFIRMED", "FLAG_RISK", "ACK"} |->
        CASE c = "PENDING" -> {"CONFIRMED", "REJECTED", "FLAG_RISK", "VOIDED"}
          [] c = "CONFIRMED" -> {"ACK", "FLAG_RISK", "VOIDED"}
          [] c = "FLAG_RISK" -> {"CONFIRMED", "REJECTED", "VOIDED"}
          [] c = "ACK" -> {"FLAG_RISK", "VOIDED"}]

ROLE_RULES ==
    [r \in {"ADMIN", "CONFIRM"} |->
        IF r = "ADMIN" THEN {"CONFIRMED", "REJECTED", "FLAG_RISK", "ACK", "VOIDED"}
        ELSE {"CONFIRMED", "FLAG_RISK", "ACK"}]

\* a check that asks the role's rule only
can_transition_by_role_alone(current, target, role) ==
    role \in DOMAIN ROLE_RULES /\ target \in ROLE_RULES[role]

can_transition(current, target, role) ==
    IF current \notin DOMAIN TRANSITIONS THEN FALSE
    ELSE IF target \notin TRANSITIONS[current] THEN FALSE
    ELSE IF role \notin DOMAIN ROLE_RULES THEN FALSE
    ELSE target \in ROLE_RULES[role]

\* src/negotiation.py, POST /negotiation/confirm/{decision_id}
confirm_decision(decision_id, cred) ==
    /\ LET who == resolve_identity(cred.user_id, cred.user_token)
       IN IF who.role \notin {"CONFIRM", "ADMIN"} THEN UNCHANGED db
          ELSE IF decision_id \notin DOMAIN db.ledger THEN UNCHANGED db
          ELSE db' = [db EXCEPT !.ledger[decision_id].stance = "CONFIRMED"]
    /\ UNCHANGED <<pc, call, txn, resp, clock, orders, gin, gout>>

\* UPDATE decision_negotiation SET human_action = action WHERE decision_id = id
SetHumanAction(d, decision_id, action) ==
    IF decision_id \in DOMAIN d.negotiation
    THEN [d EXCEPT !.negotiation[decision_id].human_action = action]
    ELSE d

\* src/api/negotiation.py, POST /negotiation/confirm/{decision_id}; the handler
\* takes no credentials, so whoever sends the request is served
api_confirm_decision(decision_id) ==
    /\ db' = SetHumanAction(db, decision_id, "CONFIRM")
    /\ UNCHANGED <<pc, call, txn, resp, clock, orders, gin, gout>>

\* src/api/negotiation.py, POST /negotiation/reject/{decision_id}
api_reject_decision(decision_id) ==
    /\ db' = SetHumanAction(db, decision_id, "REJECT")
    /\ UNCHANGED <<pc, call, txn, resp, clock, orders, gin, gout>>

\* -------------------------------------------------------------------------
\* Controls
\* -------------------------------------------------------------------------
\* the keys of omega_settings and the values the two toggles pass to set_setting
SettingKeys == {"kill_switch", "market_mode"}
SettingValues(key) ==
    IF key = "kill_switch" THEN {"true", "false"} ELSE {"EQUITY", "CRYPTO"}

\* set_setting statement by statement, for concurrent callers.  The connection
\* is opened and the table ensured (lines 201-204):
SS_Begin(w, key, value) ==
    /\ pc[w] = "idle"
    /\ pc' = [pc EXCEPT ![w] = "ss_upsert"]
    /\ call' = [call EXCEPT ![w] = [IdleCall EXCEPT !.req = [key |-> key, value |-> value]]]
    /\ txn' = [txn EXCEPT ![w] = << >>]
    /\ UNCHANGED <<db, resp, clock, orders, gin, gout>>

\* whether the open transaction of worker v has written the row of key
HoldsRow(v, key) ==
    \E i \in DOMAIN txn[v] : txn[v][i].kind = "setting" /\ txn[v][i].key = key

\* whether another open transaction has written the row of key: a write of
\* the key waits for that transaction to end
RowLocked(w, key) == \E v \in Workers \ {w} : HoldsRow(v, key)

\* the same for a caller that is none of the workers
KeyLocked(key) == \E v \in Workers : HoldsRow(v, key)

\* cur.execute of the upsert (lines 206-213)
SS_Upsert(w) ==
    /\ pc[w] = "ss_upsert"
    /\ ~RowLocked(w, call[w].req.key)
    /\ LET s == AfterStatement(db, txn[w],
                    [kind |-> "setting", key |-> call[w].req.key,
                     value |-> call[w].req.value])
       IN /\ db' = s.db
          /\ txn' = [txn EXCEPT ![w] = s.buf]
    /\ pc' = [pc EXCEPT ![w] = "ss_commit"]
    /\ UNCHANGED <<call, resp, clock, orders, gin, gout>>

\* conn.commit() and the return (lines 214-216)
SS_Commit(w) ==
    /\ pc[w] = "ss_commit"
    /\ db' = Commit(db, txn[w])
    /\ resp' = Response("ok", 200, "ok", None)
    /\ pc' = [pc EXCEPT ![w] = "idle"]
    /\ txn' = [txn EXCEPT ![w] = << >>]
    /\ call' = [call EXCEPT ![w] = IdleCall]
    /\ UNCHANGED <<clock, orders, gin, gout>>

\* POST /controls/kill-switch, from the request to the response; set_setting
\* waits while an open transaction holds the row of the key
set_kill_switch(enabled, cred) ==
    /\ LET who == resolve_identity(cred.user_id, cred.user_token)
       IN IF who.role # "ADMIN"
          THEN /\ resp' = Response("rejected", 403, "ADMIN required", "set_kill_switch")
               /\ UNCHANGED db
          ELSE /\ ~KeyLocked("kill_switch")
               /\ db' = set_setting(db, "kill_switch", IF enabled THEN "true" ELSE "false")
               /\ resp' = Response("ok", 200, "ok", None)
    /\ UNCHANGED <<pc, call, txn, clock, orders, gin, gout>>

\* POST /controls/mode
set_mode(body_mode, cred) ==
    /\ LET who == resolve_identity(cred.user_id, cred.user_token)
           mode == StripUpper(body_mode)
       IN IF who.role # "ADMIN"
          THEN /\ resp' = Response("rejected", 403, "ADMIN required", "set_mode")
               /\ UNCHANGED db
          ELSE IF mode \notin {"EQUITY", "CRYPTO"}
          THEN /\ resp' = Response("rejected", 400, "mode must be EQUITY or CRYPTO",
                                         "set_mode")
               /\ UNCHANGED db
          ELSE /\ ~KeyLocked("market_mode")
               /\ db' = set_setting(db, "market_mode", mode)
               /\ resp' = Response("ok", 200, "ok", None)
    /\ UNCHANGED <<pc, call, txn, clock, orders, gin, gout>>

\* -------------------------------------------------------------------------
\* init_ledger: seeding of the settings (lines 543-557)
\* -------------------------------------------------------------------------
\* the default init_ledger seeds a key with
SeedValue(key) ==
    IF key = "kill_switch" THEN (IF ENV_KILL_SWITCH_DEFAULT THEN "true" ELSE "false")
    ELSE IF ENV_MODE_DEFAULT \in {"EQUITY", "CRYPTO"} THEN ENV_MODE_DEFAULT
    ELSE "EQUITY"

\* a seed that writes over the row it finds
seed_upsert(d, buf, key, value) ==
    [db |-> d, buf |-> Append(buf, [kind |-> "setting", key |-> key, value |-> value]),
     raised |-> None]

\* INSERT INTO omega_settings (key, value) VALUES (...): key is the primary
\* key, a row committed in the meantime makes the insert fail
seed_insert(d, buf, key, value) ==
    IF key \in DOMAIN d.settings
    THEN [db |-> d, buf |-> buf, raised |-> "UniqueViolation"]
    ELSE [db |-> d, buf |-> Append(buf, [kind |-> "setting", key |-> key, value |-> value]),
          raised |-> None]

\* the tables are ensured; the handler turns to the first key
IL_Begin(w) ==
    /\ pc[w] = "idle"
    /\ pc' = [pc EXCEPT ![w] = "il_select"]
    /\ call' = [call EXCEPT ![w] =
            [IdleCall EXCEPT !.req = [key |-> "kill_switch", absent |-> FALSE]]]
    /\ txn' = [txn EXCEPT ![w] = << >>]
    /\ UNCHANGED <<db, resp, clock, orders, gin, gout>>

\* SELECT 1 FROM omega_settings WHERE key = ...: reads the committed rows
IL_Select(w) ==
    /\ pc[w] = "il_select"
    /\ call' = [call EXCEPT ![w].req.absent = call[w].req.key \notin DOMAIN db.settings]
    /\ pc' = [pc EXCEPT ![w] = "il_insert"]
    /\ UNCHANGED <<db, txn, resp, clock, orders, gin, gout>>

\* if not cur.fetchone(): INSERT ...; then the next key, or the commit
IL_Insert(w) ==
    /\ pc[w] = "il_insert"
    /\ LET key == call[w].req.key
           r == IF call[w].req.absent
                THEN seed_insert(db, txn[w], key, SeedValue(key))
                ELSE [db |-> db, buf |-> txn[w], raised |-> None]
       IN /\ call[w].req.absent => ~RowLocked(w, key)
          /\ IF r.raised # None
             THEN /\ db' = Rollback(r.db, r.buf)
                  /\ txn' = [txn EXCEPT ![w] = << >>]
                  /\ pc' = [pc EXCEPT ![w] = "idle"]
                  /\ call' = [call EXCEPT ![w] = IdleCall]
                  /\ resp' = Response("error", 500, r.raised, "init_ledger")
             ELSE /\ db' = r.db
                  /\ txn' = [txn EXCEPT ![w] = r.buf]
                  /\ UNCHANGED resp
                  /\ IF key = "kill_switch"
                     THEN /\ pc' = [pc EXCEPT ![w] = "il_select"]
                          /\ call' = [call EXCEPT ![w].req =
                                        [key |-> "market_mode", absent |-> FALSE]]
                     ELSE /\ pc' = [pc EXCEPT ![w] = "il_commit"]
                          /\ UNCHANGED call
    /\ UNCHANGED <<clock, orders, gin, gout>>

\* conn.commit() and the return (lines 559-563)
IL_Commit(w) ==
    /\ pc[w] = "il_commit"
    /\ db' = Commit(db, txn[w])
    /\ resp' = Response("ok", 200, "initialized", None)
    /\ pc' = [pc EXCEPT ![w] = "idle"]
    /\ txn' = [txn EXCEPT ![w] = << >>]
    /\ call' = [call EXCEPT ![w] = IdleCall]
    /\ UNCHANGED <<clock, orders, gin, gout>>

\* -------------------------------------------------------------------------
\* The system
\* -------------------------------------------------------------------------
NoGateResult ==
    [passed |-> FALSE, gate |-> None, code |-> 0, detail |-> None, evaluated |-> << >>]
NoGateInput == [req |-> BaseRequest, mode |-> None]

Init ==
    /\ db = InitDb
    /\ pc = [w \in Workers |-> "idle"]
    /\ call = [w \in Workers |-> IdleCall]
    /\ txn = [w \in Workers |-> << >>]
    /\ resp = NoResponse
    /\ clock = 0
    /\ orders = {}
    /\ gin = NoGateInput
    /\ gout = NoGateResult

\* The ingestion side: concurrent record_decision requests and ingest_decision
Next ==
    \/ \E w \in Workers, req \in RecordRequests : RD_Begin(w, req)
    \/ \E w \in Workers, k \in FailPoints : RD_Graph(w, k)
    \/ \E w \in Workers, fail \in {"none", "insert", "commit"} : RD_Persist(w, fail)
    \/ \E e \in IngestRequests, fails \in BOOLEAN : ingest_decision(e, fails)

Spec == Init /\ [][Next]_vars

\* Human review of what was ingested: one record_decision request at a time,
\* ingest_decision, and the confirm and reject operations
NextReview ==
    \/ \E req \in RecordRequests : RD_Begin("w1", req)
    \/ \E k \in FailPoints : RD_Graph("w1", k)
    \/ \E fail \in {"none", "insert", "commit"} : RD_Persist("w1", fail)
    \/ \E e \in IngestRequests, fails \in BOOLEAN : ingest_decision(e, fails)
    \/ \E id \in DecisionIds, cred \in Credentials : confirm_decision(id, cred)
    \/ \E id \in DecisionIds : api_confirm_decision(id)
    \/ \E id \in DecisionIds : api_reject_decision(id)

SpecReview == Init /\ [][NextReview]_vars

\* The controls beside the ingestion of decisions: one record_decision request
\* at a time, with the kill switch and the market mode toggled around it
ModeBodies == {"EQUITY", "crypto", "FOREX"}

NextControls ==
    \/ \E req \in RecordRequests : RD_Begin("w1", req)
    \/ \E k \in FailPoints : RD_Graph("w1", k)
    \/ \E fail \in {"none", "insert", "commit"} : RD_Persist("w1", fail)
    \/ \E enabled \in BOOLEAN, cred \in Credentials : set_kill_switch(enabled, cred)
    \/ \E body_mode \in ModeBodies, cred \in Credentials : set_mode(body_mode, cred)

SpecControls == Init /\ [][NextControls]_vars

\* -------------------------------------------------------------------------
\* The gate pipeline of record_decision as a function of the request
\* -------------------------------------------------------------------------
GateCredentials ==
    {<<None, None, "whk ">>, <<None, None, "bad">>, <<"jaylyn", "tokA ", None>>,
     <<"JAYLYN", "tokC", None>>, <<"WIFE", "tokC", None>>, <<"GUEST", "tokG", None>>,
     <<None, None, None>>, <<"JAYLYN", "tokA", "">>}

GateEvaluators ==
    {Absent, Returns(NoneResult), Returns(BoolResult(TRUE)), Returns(BoolResult(FALSE)),
     Returns(DictResult("allowed", FALSE)), Returns(DictResult("deny", TRUE)),
     Returns(TupleResult(" deny")), Returns(TupleResult("ALLOW")),
     Raises("ValueError"), Raises("TypeError"), Raises("HTTPException")}

GateInputs ==
    {[req |-> [symbol |-> sy, decision |-> de, stance |-> st, confidence |-> co,
               tier |-> ti, session |-> se[1], psession |-> se[2], trade_id |-> 0,
               user_id |-> cr[1], user_token |-> cr[2], webhook_key |-> cr[3],
               sm |-> sm],
      mode |-> mo] :
        sy \in {"SPY", " spy", "BTCUSD"}, de \in {"BUY", "LONG"}, st \in {"ENTER", "WAIT"},
        co \in {-1, 69, 70, 101}, ti \in {"A", "C"},
        se \in {<<None, None>>, <<"", "ETH">>, <<"RTH", "LONDON">>, <<None, "LONDON">>,
                <<"NY", None>>},
        cr \in GateCredentials, sm \in GateEvaluators,
        mo \in {None, "crypto", "FOREX"}}

\* the database the gates of gin read: omega_settings holds gin.mode, if any
GateDb(in) ==
    IF in.mode = None THEN InitDb
    ELSE [InitDb EXCEPT !.settings = ("market_mode" :> in.mode)]

InitGates ==
    /\ db = InitDb
    /\ pc = [w \in Workers |-> "idle"]
    /\ call = [w \in Workers |-> IdleCall]
    /\ txn = [w \in Workers |-> << >>]
    /\ resp = NoResponse
    /\ clock = 0
    /\ orders = {}
    /\ gin \in GateInputs
    /\ gout = NoGateResult

GateEval ==
    /\ gout = NoGateResult
    /\ gout' = RecordGates(gin.req, GateDb(gin))
    /\ UNCHANGED <<db, pc, call, txn, resp, clock, orders, gin>>

SpecGates == InitGates /\ [][GateEval]_vars

\* resolve_identity over the user ids and tokens a caller can send: requests
\* that differ from an accepted one in the two identity headers only
IdentityInputs ==
    {[req |-> [BaseRequest EXCEPT !.webhook_key = None, !.user_id = u, !.user_token = t],
      mode |-> None] :
        u \in {None, "", "JAYLYN", "jaylyn", "WIFE", "GUEST", "NOTOK", "NOROLE", "BOB"},
        t \in {None, "", "tokA", "tokA ", "tokC", "tokG", "tokN", "bad"}}

InitIdentity ==
    /\ db = InitDb
    /\ pc = [w \in Workers |-> "idle"]
    /\ call = [w \in Workers |-> IdleCall]
    /\ txn = [w \in Workers |-> << >>]
    /\ resp = NoResponse
    /\ clock = 0
    /\ orders = {}
    /\ gin \in IdentityInputs
    /\ gout = NoGateResult

SpecIdentity == InitIdentity /\ [][GateEval]_vars

\* record_decision serving one request, gin.req, against a fresh database: the
\* request is sent up to MaxCalls times and GateEval records what its gates answer
GovernorInputs ==
    {[req |-> [BaseRequest EXCEPT !.confidence = co, !.tier = ti,
                                  !.session = se[1], !.psession = se[2]],
      mode |-> None] :
        co \in {0, 50, 69, 70, 100}, ti \in {"A", "B", "C", "O-slash", "S-", "D"},
        se \in {<<None, None>>, <<"", "ETH">>, <<"RTH", "LONDON">>, <<None, "LONDON">>,
                <<"NY", None>>, <<"", "">>}}

InitGovernor ==
    /\ db = InitDb
    /\ pc = [w \in Workers |-> "idle"]
    /\ call = [w \in Workers |-> IdleCall]
    /\ txn = [w \in Workers |-> << >>]
    /\ resp = NoResponse
    /\ clock = 0
    /\ orders = {}
    /\ gin \in GovernorInputs
    /\ gout = NoGateResult

NextRequest ==
    \/ GateEval
    \/ RD_Begin("w1", gin.req)
    \/ \E k \in FailPoints : RD_Graph("w1", k)
    \/ \E fail \in {"none", "insert", "commit"} : RD_Persist("w1", fail)

SpecGovernor == InitGovernor /\ [][NextRequest]_vars

\* ingest_decision serving one event, gin.req, against a fresh database: the
\* event is sent until MaxCalls of its copies have reached persistence
IngestInputs ==
    {[req |-> [symbol |-> sy, timeframe |-> "1h", stance |-> st, regime |-> re,
               exit_reason |-> er, exit_quality |-> eq, confidence |-> co],
      mode |-> None] :
        sy \in {"SPY", "ZZZ"},
        st \in {"ENTER_LONG", "ENTER_SHORT", "HOLD_LONG", "WAIT", "ENTER"},
        re \in {"COMPRESSION", "EXPANSION", "NEUTRAL", "CHAOS"},
        er \in {"NONE", None, "TIME_DECAY", "HUMAN_EXIT"},
        eq \in {None, "GOOD"},
        co \in {{}, {101}}}

InitIngest ==
    /\ db = InitDb
    /\ pc = [w \in Workers |-> "idle"]
    /\ call = [w \in Workers |-> IdleCall]
    /\ txn = [w \in Workers |-> << >>]
    /\ resp = NoResponse
    /\ clock = 0
    /\ orders = {}
    /\ gin \in IngestInputs
    /\ gout = NoGateResult

NextIngest == \E fails \in BOOLEAN : ingest_decision(gin.req, fails)

SpecIngest == InitIngest /\ [][NextIngest]_vars

\* ingest_decision serving gin.req, the detail of each answer kept in gout
IngestEval ==
    \E fails \in BOOLEAN :
        LET r == IngestRun(db, gin.req, clock + 1, fails)
        IN /\ IngestAnswer(r, fails)
           /\ gout' = [NoGateResult EXCEPT !.gate = "ingest_decision",
                                           !.passed = (r.resp.status = "ok"),
                                           !.code = r.resp.code,
                                           !.detail = r.detail]
           /\ UNCHANGED <<pc, call, txn, orders, gin>>

SpecIngestDetail == InitIngest /\ [][IngestEval]_vars

\* record_decision serving one request that is acceptable but for what the
\* policy evaluator answers: the results of the three shapes, None, and an
\* object of no known shape
PolicyResults ==
    {NoneResult, BoolResult(TRUE), BoolResult(FALSE),
     [shape |-> "other", key |-> None, val |-> TRUE, head |-> None, reason |-> None]}
    \cup {[shape |-> "dict", key |-> k, val |-> b, head |-> None, reason |-> r] :
            k \in {"allowed", "deny", "ok", "-"}, b \in BOOLEAN,
            r \in {None, "policy", ReasonCodes}}
    \cup {[shape |-> "tuple", key |-> None, val |-> b, head |-> h, reason |-> r] :
            h \in {"DENY", " deny", "BLOCK", "ALLOW", "MAYBE", "bool"}, b \in BOOLEAN,
            r \in {None, "policy", ReasonCodes}}

PolicyInputs ==
    {[req |-> [BaseRequest EXCEPT !.sm = sm], mode |-> None] :
        sm \in {Absent} \cup {Returns(r) : r \in PolicyResults}}

InitPolicy ==
    /\ db = InitDb
    /\ pc = [w \in Workers |-> "idle"]
    /\ call = [w \in Workers |-> IdleCall]
    /\ txn = [w \in Workers |-> << >>]
    /\ resp = NoResponse
    /\ clock = 0
    /\ orders = {}
    /\ gin \in PolicyInputs
    /\ gout = NoGateResult

SpecPolicy == InitPolicy /\ [][NextRequest]_vars

\* can_transition over the states of DecisionState, a state outside it, and the
\* roles resolve_identity can return beside one it cannot
DecisionStates == {"PENDING", "CONFIRMED", "REJECTED", "FLAG_RISK", "ACK", "VOIDED"}

TransitionInputs ==
    {[current |-> c, target |-> t, role |-> r] :
        c \in DecisionStates \cup {"EXPIRED"}, t \in DecisionStates \cup {"EXPIRED"},
        r \in Roles \cup {"OWNER"}}

InitTransition ==
    /\ db = InitDb
    /\ pc = [w \in Workers |-> "idle"]
    /\ call = [w \in Workers |-> IdleCall]
    /\ txn = [w \in Workers |-> << >>]
    /\ resp = NoResponse
    /\ clock = 0
    /\ orders = {}
    /\ gin \in TransitionInputs
    /\ gout = NoGateResult

TransitionEval ==
    /\ gout = NoGateResult
    /\ gout' = [NoGateResult EXCEPT
                    !.passed = can_transition(gin.current, gin.target, gin.role),
                    !.gate = "can_transition"]
    /\ UNCHANGED <<db, pc, call, txn, resp, clock, orders, gin>>

SpecTransition == InitTransition /\ [][TransitionEval]_vars

\* The settings store under concurrent set_setting calls
NextSettings ==
    \/ \E w \in Workers, key \in SettingKeys :
            \E value \in SettingValues(key) : SS_Begin(w, key, value)
    \/ \E w \in Workers : SS_Upsert(w)
    \/ \E w \in Workers : SS_Commit(w)

SpecSettings == Init /\ [][NextSettings]_vars

\* The settings under the two toggles and concurrent init_ledger requests
NextSeed ==
    \/ \E enabled \in BOOLEAN, cred \in Credentials : set_kill_switch(enabled, cred)
    \/ \E body_mode \in ModeBodies, cred \in Credentials : set_mode(body_mode, cred)
    \/ \E w \in Workers : IL_Begin(w)
    \/ \E w \in Workers : IL_Select(w)
    \/ \E w \in Workers : IL_Insert(w)
    \/ \E w \in Workers : IL_Commit(w)

SpecSeed == Init /\ [][NextSeed]_vars

\* The per-symbol state machine: the transition function of the statemachine
\* module that main.py loads by name and calls for every decision
SymbolStates ==
    {"STAND_DOWN", "SCOUTING", "ACCUMULATING", "EXPANDING", "DEFENDING", "EXITING"}

InTradeStates == {"ACCUMULATING", "EXPANDING", "DEFENDING"}

normalize_state(prevState) ==
    IF prevState \in SymbolStates THEN prevState ELSE "STAND_DOWN"

\* the transition rules with the rule for an EXIT decision taken first
next_state_exit_first(prevState, event) ==
    LET p == normalize_state(prevState)
    IN IF event.decision = "EXIT"
         THEN [state |-> "EXITING", reason |-> "exit decision"]
       ELSE IF event.stance \in {"DENIED", "STAND_DOWN"}
         THEN [state |-> "STAND_DOWN", reason |-> "stance " \o event.stance]
       ELSE IF event.stance = "ENTER"
         THEN [state |-> "ACCUMULATING", reason |-> "enter"]
       ELSE IF event.stance = "HOLD" /\ p \in InTradeStates
         THEN [state |-> p, reason |-> "hold maintains state"]
       ELSE IF event.stance = "HOLD"
         THEN [state |-> "DEFENDING", reason |-> "hold without prior in-trade state"]
       ELSE [state |-> "STAND_DOWN", reason |-> "unmatched"]

next_state(prevState, event) ==
    LET p == normalize_state(prevState)
    IN IF event.stance \in {"DENIED", "STAND_DOWN"}
         THEN [state |-> "STAND_DOWN", reason |-> "stance " \o event.stance]
       ELSE IF event.decision = "EXIT"
         THEN [state |-> "EXITING", reason |-> "exit decision"]
       ELSE IF event.stance = "ENTER"
         THEN [state |-> "ACCUMULATING", reason |-> "enter"]
       ELSE IF event.stance = "HOLD" /\ p \in InTradeStates
         THEN [state |-> p, reason |-> "hold maintains state"]
       ELSE IF event.stance = "HOLD"
         THEN [state |-> "DEFENDING", reason |-> "hold without prior in-trade state"]
       ELSE [state |-> "STAND_DOWN", reason |-> "unmatched"]

SymbolStateInputs ==
    {[prevState |-> p, event |-> [stance |-> st, decision |-> dk]] :
        p \in SymbolStates \cup {"CORRUPT"},
        st \in {"ENTER", "HOLD", "STAND_DOWN", "DENIED", "WATCH"},
        dk \in {"BUY", "EXIT", "HOLD"}}

InitSymbolState ==
    /\ db = InitDb
    /\ pc = [w \in Workers |-> "idle"]
    /\ call = [w \in Workers |-> IdleCall]
    /\ txn = [w \in Workers |-> << >>]
    /\ resp = NoResponse
    /\ clock = 0
    /\ orders = {}
    /\ gin \in SymbolStateInputs
    /\ gout = NoGateResult

SymbolStateEval ==
    /\ gout = NoGateResult
    /\ gout' = [gate |-> "next_state",
                next |-> next_state(gin.prevState, gin.event)]
    /\ UNCHANGED <<db, pc, call, txn, resp, clock, orders, gin>>

SpecSymbolState == InitSymbolState /\ [][SymbolStateEval]_vars


\* record_decision serving one request, gin.req, against a fresh database,
\* where no trade exists: the request names no trade or a trade that is not there
TradeRefInputs ==
    {[req |-> [BaseRequest EXCEPT !.decision = dk, !.stance = st, !.trade_id = t],
      mode |-> None] :
        dk \in {"BUY", "SELL", "EXIT", "HOLD"},
        st \in {"ENTER", "HOLD", "STAND_DOWN", "DENIED"},
        t \in {0, UnknownTradeId}}

InitTradeRef ==
    /\ db = InitDb
    /\ pc = [w \in Workers |-> "idle"]
    /\ call = [w \in Workers |-> IdleCall]
    /\ txn = [w \in Workers |-> << >>]
    /\ resp = NoResponse
    /\ clock = 0
    /\ orders = {}
    /\ gin \in TradeRefInputs
    /\ gout = NoGateResult

SpecTradeRef == InitTradeRef /\ [][NextRequest]_vars

\* -------------------------------------------------------------------------
\* Properties
\* -------------------------------------------------------------------------
\* the step in which worker w's record_decision commits and answers
CommitStep(w) ==
    /\ pc[w] = "persist"
    /\ pc'[w] = "idle"
    /\ resp'.status = "recorded"

\* what the committed tables hold of the request that reached persistence as c
CallRows(c) == {i \in DOMAIN db.ledger : db.ledger[i].call = c}
CallEvents(c, type) ==
    {i \in DOMAIN db.trade_events :
        db.trade_events[i].call = c /\ db.trade_events[i].event_type = type}
CallTrades(c) == {t \in DOMAIN db.trades : db.trades[t].call = c}
CallCloses(c) == {t \in DOMAIN db.trades : db.trades[t].closed_by = c}
CallNegotiations(c) == {i \in DOMAIN db.negotiation : db.negotiation[i].call = c}
EventTypes == {"OPEN", "EXIT", "DECISION"}

\* the step in which a request is rejected at a gate: the steps that answer
\* with a rejection and move no request in flight (a record_decision request
\* that passes its gates, and every later step of it, moves that request)
RejectStep ==
    /\ resp'.status = "rejected"
    /\ pc' = pc

\* C1: a decision that fails a gate of record_decision or of ingest_decision has
\* no side effect: the step that rejects it leaves every table (ledger, trades,
\* trade events, negotiation, regime_memory, settings) and the submitted orders
\* as they were, and leaves nothing behind in a transaction.
C1_DeniedNoSideEffect ==
    [][RejectStep => (db' = db /\ orders' = orders /\ txn' = txn /\ clock' = clock)]_vars

\* ingest_decision has rejected a request at a gate that follows its
\* regime_memory upsert, with a decision already in the ledger
C1_Witness ==
    /\ resp.status = "rejected"
    /\ resp.handler = "ingest_decision"
    /\ resp.code = 400
    /\ Len(db.ledger) > 0

\* the order the gates are stated in: identity/authority, universe, field
\* validation, governor, external policy evaluator
StatedOrder ==
    <<"webhook_key", "authority", "universe", "decision", "stance", "range",
      "confidence", "tier", "session", "exec_session", "policy">>

FailingGates(req, d) == {i \in DOMAIN StatedOrder : GateFails(StatedOrder[i], req, d)}

\* C2: record_decision evaluates its gates in the stated order; the verdict is
\* the denial of the first gate in that order that the event fails, the gates
\* evaluated are exactly those up to and including it, and an event that fails
\* none passes with every gate evaluated.
C2_FirstFailingGate ==
    gout # NoGateResult =>
        LET d == GateDb(gin)
            failing == FailingGates(gin.req, d)
        IN IF failing = {}
           THEN gout.passed /\ gout.evaluated = StatedOrder
           ELSE LET first == CHOOSE i \in failing : \A j \in failing : i <= j
                IN /\ ~gout.passed
                   /\ gout.gate = StatedOrder[first]
                   /\ gout.code = GateDenial(StatedOrder[first], gin.req, d).code
                   /\ gout.detail = GateDenial(StatedOrder[first], gin.req, d).detail
                   /\ gout.evaluated = SubSeq(StatedOrder, 1, first)

\* an event outside the universe that also fails field validation, the governor
\* and the policy evaluator is denied at the universe gate
C2_Witness ==
    /\ gout # NoGateResult
    /\ gout.gate = "universe"
    /\ GateFails("stance", gin.req, GateDb(gin))
    /\ GateFails("confidence", gin.req, GateDb(gin))
    /\ GateFails("policy", gin.req, GateDb(gin))

\* C3: the rows of one accepted decision are one atomic unit.  Of a request that
\* reached persistence, the committed tables hold either nothing (no ledger row,
\* no trade, no close, no trade event, no negotiation row) or the whole of what
\* the handler writes: one ledger row, and with it the trade it created and its
\* OPEN event, the close and its EXIT event, and the DECISION event.
C3_AllOrNothing ==
    \A c \in 1..MaxCalls :
        IF CallRows(c) = {}
        THEN /\ CallTrades(c) = {}
             /\ CallCloses(c) = {}
             /\ CallNegotiations(c) = {}
             /\ \A type \in EventTypes : CallEvents(c, type) = {}
        ELSE \E i \in CallRows(c) :
                LET r == db.ledger[i]
                IN /\ CallRows(c) = {i}
                   /\ IF r.source = "record_decision"
                      THEN /\ CallTrades(c) \subseteq {r.trade_id}
                           /\ Cardinality(CallEvents(c, "OPEN")) = Cardinality(CallTrades(c))
                           /\ IF HasTradeId(r.trade_id)
                              THEN /\ r.trade_id \in DOMAIN db.trades
                                   /\ Cardinality(CallEvents(c, "DECISION")) = 1
                              ELSE \A type \in EventTypes : CallEvents(c, type) = {}
                           /\ IF r.decision = "EXIT" /\ HasTradeId(r.trade_id)
                              THEN /\ Cardinality(CallEvents(c, "EXIT")) = 1
                                   /\ db.trades[r.trade_id].status = "CLOSED"
                              ELSE CallEvents(c, "EXIT") = {} /\ CallCloses(c) = {}
                           /\ CallNegotiations(c) = {}
                      ELSE /\ CallNegotiations(c) = {i}
                           /\ CallTrades(c) = {}
                           /\ \A type \in EventTypes : CallEvents(c, type) = {}

\* persistence failed in record_decision after the gates, while the tables hold
\* the trade of an earlier decision
C3_Witness ==
    /\ resp.status = "error"
    /\ resp.handler = "record_decision"
    /\ DOMAIN db.trades # {}

\* C4: an evaluator that is absent or raises is treated as ALLOW with a
\* diagnostic note: the policy gate is never the gate that stops the request.
C4_EvaluatorFailureAllows ==
    (gout # NoGateResult /\ gin.req.sm.kind \in {"absent", "raise"}) =>
        /\ enforce_decision_state_machine(gin.req.sm).outcome = "allow"
        /\ enforce_decision_state_machine(gin.req.sm).note # None
        /\ gout.gate # "policy"

\* C5: a trade is closed once: a closed trade keeps its closed-at, and no later
\* decision closes it again.
C5_ClosedOnce ==
    [][\A t \in DOMAIN db.trades :
            db.trades[t].status = "CLOSED" =>
                /\ db'.trades[t].closed_at = db.trades[t].closed_at
                /\ db'.trades[t].closed_by = db.trades[t].closed_by]_vars

\* C6: when record_decision commits, a request with stance ENTER and no trade id
\* has created exactly one trade row, inserted with status OPEN under one newly
\* allocated id that the ledger row carries; a request that supplied a trade id
\* has created none and its ledger row carries the supplied id.
C6_EnterAllocatesOneTrade ==
    [][\A w \in Workers :
         CommitStep(w) =>
            LET c == call[w]
                new == DOMAIN db'.trades \ DOMAIN db.trades
                made == {i \in DOMAIN txn[w] : txn[w][i].kind = "create_trade"}
                row == db'.ledger[Len(db'.ledger)]
            IN IF HasTradeId(c.req.trade_id)
               THEN /\ new = {}
                    /\ made = {}
                    /\ row.trade_id = c.req.trade_id
                    /\ row.trade_id \in DOMAIN db.trades
               ELSE IF c.req.stance = "ENTER"
               THEN /\ Cardinality(new) = 1
                    /\ Cardinality(made) = 1
                    /\ row.trade_id \in new
                    /\ \A i \in made :
                         /\ txn[w][i].tid = row.trade_id
                         /\ Apply(db, txn[w][i]).trades[row.trade_id].status = "OPEN"
               ELSE new = {} /\ made = {} /\ ~HasTradeId(row.trade_id)]_vars

\* an ENTER without a trade id created a trade, and a later ENTER that supplied
\* that id was committed against it
C6_Witness ==
    \E i, j \in DOMAIN db.ledger :
        /\ i # j
        /\ db.ledger[i].stance = "ENTER" /\ db.ledger[j].stance = "ENTER"
        /\ db.ledger[i].trade_id = db.ledger[j].trade_id
        /\ HasTradeId(db.ledger[i].trade_id)
        /\ db.ledger[i].trade_id \in DOMAIN db.trades
        /\ db.trades[db.ledger[i].trade_id].call = db.ledger[i].call
        /\ Cardinality(DOMAIN db.trades) = 1

\* C7: two concurrent ENTER decisions for one symbol never both allocate a
\* trade id: no two requests in flight both hold a new trade for the symbol.
C7_OneAllocationPerSymbol ==
    \A w1, w2 \in Workers :
        w1 # w2 =>
            ~ \E i \in DOMAIN txn[w1], j \in DOMAIN txn[w2] :
                /\ txn[w1][i].kind = "create_trade"
                /\ txn[w2][j].kind = "create_trade"
                /\ txn[w1][i].symbol = txn[w2][j].symbol

\* C8: a committed decision_ledger row never changes: every step keeps each row
\* it finds, so the ledger only grows by appended rows.
C8_LedgerRowsImmutable ==
    [][\A i \in DOMAIN db.ledger :
            i \in DOMAIN db'.ledger /\ db'.ledger[i] = db.ledger[i]]_vars

\* the review status of decision id: the human action taken on its negotiation
\* record, in the vocabulary of the transition table, or else its status column
ReviewStatus(d, id) ==
    LET n == d.negotiation[id]
    IN IF n.human_action = "CONFIRM" THEN "CONFIRMED"
       ELSE IF n.human_action = "REJECT" THEN "REJECTED"
       ELSE n.status

\* C9: a review status changes only along an edge the transition table allows
\* and the actor's role may set.  The confirm and reject operations take no
\* credentials, so the actor of a step may hold any role; a REJECTED or VOIDED
\* record never changes again.
C9_ReviewAlongPermittedEdges ==
    [][\A id \in DOMAIN db.negotiation :
            LET old == ReviewStatus(db, id)
                new == ReviewStatus(db', id)
            IN /\ (old \in {"REJECTED", "VOIDED"} => new = old)
               /\ \A role \in Roles :
                    ((api_confirm_decision(id) \/ api_reject_decision(id)) /\ new # old)
                        => can_transition(old, new, role)]_vars

\* C10: every accepted decision commits, with its ledger row, exactly one
\* StateTransition insert and exactly one SymbolState upsert.
C10_TransitionAndSymbolState ==
    [][\A w \in Workers :
         CommitStep(w) =>
            /\ Len(db'.ledger) = Len(db.ledger) + 1
            /\ Cardinality({i \in DOMAIN txn[w] :
                                txn[w][i].kind = "state_transition"}) = 1
            /\ Cardinality({i \in DOMAIN txn[w] :
                                txn[w][i].kind = "symbol_state"}) = 1]_vars

\* the statements record_decision issues for the request in flight c, from the
\* request alone: the trade memory graph and the ledger row
RequestStatements(c) ==
    GraphStatements([c EXCEPT !.trade_id = c.req.trade_id], c.trade_id)
        \o <<[kind |-> "ledger", row |-> LedgerRow(c)]>>

\* C11: while the effective kill switch is on no step submits an order, and a
\* request that commits while it is on writes its ledger row and its
\* trade-graph rows exactly as the request alone determines them, the same
\* rows as with the switch off.
C11_KillSwitchSuppressesOrders ==
    [][effective_kill_switch(db) =>
            /\ orders' = orders
            /\ \A w \in Workers :
                 CommitStep(w) => db' = ApplyAll(db, RequestStatements(call[w]))]_vars

\* with the kill switch on, an ENTER decision has been recorded with its trade
\* and its OPEN event, and no order was submitted for it
C11_Witness ==
    /\ effective_kill_switch(db)
    /\ orders = {}
    /\ \E i \in DOMAIN db.ledger :
         /\ db.ledger[i].stance = "ENTER"
         /\ db.ledger[i].trade_id \in DOMAIN db.trades
         /\ CallEvents(db.ledger[i].call, "OPEN") # {}

\* C12: a trade never reopens: a trade that is CLOSED is CLOSED after every
\* step, whatever decision the step commits.
C12_NeverReopens ==
    [][\A t \in DOMAIN db.trades :
            db.trades[t].status = "CLOSED" =>
                t \in DOMAIN db'.trades /\ db'.trades[t].status = "CLOSED"]_vars

\* an ENTER decision that supplied the id of a closed trade was committed
\* after the trade was closed, and the trade is still CLOSED
C12_Witness ==
    \E i \in DOMAIN db.ledger :
        LET r == db.ledger[i]
        IN /\ r.stance = "ENTER"
           /\ r.trade_id \in DOMAIN db.trades
           /\ db.trades[r.trade_id].status = "CLOSED"
           /\ db.trades[r.trade_id].call # r.call
           /\ db.trades[r.trade_id].closed_by # r.call

\* the events of trade t, in the order they were written, and their types
TradeEventsOf(d, t) == SelectSeq(d.trade_events, LAMBDA e : e.trade_id = t)
EventTypesOf(d, t) ==
    [i \in DOMAIN TradeEventsOf(d, t) |-> TradeEventsOf(d, t)[i].event_type]
CountOf(d, t, type) ==
    Cardinality({i \in DOMAIN EventTypesOf(d, t) : EventTypesOf(d, t)[i] = type})

\* every trade has exactly one OPEN event, and it is the trade's first event
OpenEventFirst(d) ==
    \A t \in DOMAIN d.trades :
        /\ Len(TradeEventsOf(d, t)) >= 1
        /\ EventTypesOf(d, t)[1] = "OPEN"
        /\ CountOf(d, t, "OPEN") = 1

\* C13: an OPEN event is recorded at trade creation.  A request that commits
\* with stance ENTER, no trade id and a decision other than EXIT has created a
\* new trade with status OPEN whose events are exactly OPEN then DECISION; and
\* after every step each trade has exactly one OPEN event, its earliest event.
C13_OpenEventAtCreation ==
    [][/\ OpenEventFirst(db')
       /\ \A w \in Workers :
            LET c == call[w]
            IN (/\ CommitStep(w)
                /\ c.req.stance = "ENTER"
                /\ ~HasTradeId(c.req.trade_id)
                /\ c.req.decision # "EXIT")
               => /\ c.trade_id \notin DOMAIN db.trades
                  /\ c.trade_id \in DOMAIN db'.trades
                  /\ db'.trades[c.trade_id].status = "OPEN"
                  /\ EventTypesOf(db', c.trade_id) = <<"OPEN", "DECISION">>
                  /\ Len(db'.trade_events) = Len(db.trade_events) + 2]_vars

\* a trade that is still OPEN carries its OPEN event first, then the DECISION
\* event of the request that created it and that of a later request
C13_Witness ==
    \E t \in DOMAIN db.trades :
        /\ db.trades[t].status = "OPEN"
        /\ EventTypesOf(db, t) = <<"OPEN", "DECISION", "DECISION">>

\* a trade is CLOSED if and only if it has an EXIT event
ClosedIffExit(d) ==
    \A t \in DOMAIN d.trades :
        d.trades[t].status = "CLOSED" <=> CountOf(d, t, "EXIT") >= 1

\* C14: a request that commits with decision EXIT against an existing trade
\* leaves that trade CLOSED with closed-at stamped and has appended an EXIT
\* event (and its DECISION event) to it; and after every step a trade is
\* CLOSED if and only if it has at least one EXIT event.
C14_ExitClosesTrade ==
    [][/\ ClosedIffExit(db')
       /\ \A w \in Workers :
            LET c == call[w]
                t == c.req.trade_id
            IN (CommitStep(w) /\ c.req.decision = "EXIT" /\ t \in DOMAIN db.trades)
               => /\ db'.trades[t].status = "CLOSED"
                  /\ db'.trades[t].closed_at = c.cid
                  /\ db'.trades[t].closed_at # 0
                  /\ EventTypesOf(db', t) = EventTypesOf(db, t) \o <<"EXIT", "DECISION">>
                  /\ TradeEventsOf(db', t)[Len(TradeEventsOf(db, t)) + 1].call = c.cid]_vars

\* a trade opened by one request has been closed by a later EXIT request
C14_Witness ==
    \E t \in DOMAIN db.trades :
        /\ db.trades[t].status = "CLOSED"
        /\ db.trades[t].closed_by # db.trades[t].call
        /\ EventTypesOf(db, t) = <<"OPEN", "DECISION", "EXIT", "DECISION">>

\* C15: for every trade id the number of DECISION events of the trade equals
\* the number of decision_ledger rows that carry the id.
C15_DecisionEventPerLedgerRow ==
    \A t \in TradeIds \cup {UnknownTradeId} :
        CountOf(db, t, "DECISION")
            = Cardinality({i \in DOMAIN db.ledger : db.ledger[i].trade_id = t})

\* two decisions that reference one trade have been committed
C15_Witness ==
    \E t \in DOMAIN db.trades :
        /\ CountOf(db, t, "DECISION") = 2
        /\ Cardinality({i \in DOMAIN db.ledger : db.ledger[i].trade_id = t}) = 2

\* C16: trade events are append-only: across every step the events of each
\* trade are the events before the step with zero or more appended.
C16_EventsAppendOnly ==
    [][\A t \in TradeIds \cup {UnknownTradeId} :
            /\ Len(TradeEventsOf(db', t)) >= Len(TradeEventsOf(db, t))
            /\ SubSeq(TradeEventsOf(db', t), 1, Len(TradeEventsOf(db, t)))
                    = TradeEventsOf(db, t)]_vars

\* a later request has appended events to a trade that an earlier one wrote to
C16_Witness ==
    \E t \in DOMAIN db.trades :
        \E i, j \in DOMAIN TradeEventsOf(db, t) :
            /\ i < j
            /\ TradeEventsOf(db, t)[i].call # TradeEventsOf(db, t)[j].call
            /\ TradeEventsOf(db, t)[i].event_type = TradeEventsOf(db, t)[j].event_type

\* the actor of a request holds role ADMIN: the webhook key it supplies is the
\* configured one, or it supplies none and names a user configured as ADMIN
\* with that user's token
ActorIsAdmin(req) ==
    IF req.webhook_key # None
    THEN WEBHOOK_KEY \notin {None, ""} /\ Strip(req.webhook_key) = WEBHOOK_KEY
    ELSE /\ req.user_id \notin {None, ""}
         /\ req.user_token \notin {None, ""}
         /\ StripUpper(req.user_id) \in DOMAIN USER_TOKENS \cap DOMAIN USER_ROLES
         /\ Strip(req.user_token) = USER_TOKENS[StripUpper(req.user_id)]
         /\ StripUpper(USER_ROLES[StripUpper(req.user_id)]) = "ADMIN"

\* C17 (as stated): a decision is accepted only if the actor's role is ADMIN,
\* and every other actor is denied with "Permission denied" before any other
\* gate is evaluated.
C17_PermissionDeniedForAll ==
    gout # NoGateResult =>
        /\ gout.passed => ActorIsAdmin(gin.req)
        /\ ~ActorIsAdmin(gin.req) =>
             /\ ~gout.passed
             /\ gout.detail = "Permission denied: ADMIN required"

\* C17 (amended): a decision is accepted only if the actor's role is ADMIN.
\* Every other actor is denied with status 403 before any later gate is
\* evaluated: with "Invalid webhook key" when it supplied a webhook key, and
\* with "Permission denied: ADMIN required" when it supplied none.
C17_AdminOnly ==
    gout # NoGateResult =>
        IF ActorIsAdmin(gin.req)
        THEN gout.gate \notin {"webhook_key", "authority"}
        ELSE /\ ~gout.passed
             /\ gout.code = 403
             /\ IF gin.req.webhook_key # None
                THEN /\ gout.detail = "Invalid webhook key"
                     /\ gout.evaluated = <<"webhook_key">>
                ELSE /\ gout.detail = "Permission denied: ADMIN required"
                     /\ gout.evaluated = <<"webhook_key", "authority">>

\* a request with the credentials of an ADMIN user and an empty webhook key
\* has been denied at the webhook key
C17_Witness ==
    /\ gout # NoGateResult
    /\ gin.req.webhook_key = ""
    /\ gin.req.user_id = "JAYLYN"
    /\ gin.req.user_token = "tokA"
    /\ gout.detail = "Invalid webhook key"

EffectiveAllowList(in) ==
    IF in.mode # None /\ StripUpper(in.mode) = "CRYPTO" THEN CRYPTO_SYMBOLS
    ELSE EQUITY_SYMBOLS

C20_RangeRejectsWhateverElse ==
    (gout # NoGateResult /\ gin.req.confidence \notin 0..100) =>
        /\ ~gout.passed
        /\ gout.detail = "Confidence out of range"

\* C20 (amended): a decision whose confidence is outside [0,100] is never
\* accepted, whatever its other fields are; it is rejected with the client
\* error "Confidence out of range" when it passes the gates that run before
\* the range check (identity, universe, decision and stance vocabulary), and
\* with the denial of the first of those gates it fails otherwise.  The
\* validator of ingest_decision rejects the same confidences.
C20_OutOfRangeNeverAccepted ==
    (gout # NoGateResult /\ gin.req.confidence \notin 0..100) =>
        /\ ~gout.passed
        /\ validate_confidence({gin.req.confidence}) = "ValueError"
        /\ IF /\ ActorIsAdmin(gin.req)
              /\ StripUpper(gin.req.symbol) \in EffectiveAllowList(gin)
              /\ gin.req.decision
                    \in {"BUY", "SELL", "EXIT", "HOLD", "ENTER LONG", "ENTER SHORT"}
              /\ gin.req.stance \in {"ENTER", "HOLD", "STAND_DOWN", "DENIED"}
           THEN /\ gout.gate = "range"
                /\ gout.code = 400
                /\ gout.detail = "Confidence out of range"
           ELSE gout.gate \in {"webhook_key", "authority", "universe", "decision", "stance"}

\* a confidence below the range was rejected at the range check although the
\* tier, the session and the policy evaluator would each have denied it too
C20_Witness ==
    /\ gin.req.confidence = -1
    /\ gin.req.tier = "C"
    /\ gin.req.session = "NY"
    /\ gin.req.sm.kind = "return"
    /\ gout.detail = "Confidence out of range"

\* the governor's verdict on a request, from its fields: the reason of the first
\* of the confidence, tier and session checks that fails, None when none does
GovernorReason(req) ==
    LET sess == IF req.session \notin {None, ""} THEN req.session ELSE req.psession
    IN IF req.confidence < 70 THEN "Denied: confidence gate"
       ELSE IF req.tier \in {"O-slash", "S-", "C", "D"} THEN "Denied: tier gate"
       ELSE IF sess \notin {None, ""} /\ sess \notin {"RTH", "ETH"}
            THEN "Denied: session gate"
       ELSE None

\* C21: a decision that passes authority, universe and field validation is
\* denied by the governor exactly when its confidence is below 70, or its tier
\* is disallowed, or a session is present and not allowed; the denial (403)
\* names the first of these checks that fails, and a denied decision writes no
\* row and submits no order however often it is sent.
C21_GovernorDenies ==
    LET reason == GovernorReason(gin.req)
    IN /\ gout # NoGateResult =>
            IF reason = None
            THEN gout.gate \notin {"confidence", "tier", "session", "exec_session"}
            ELSE /\ ~gout.passed
                 /\ gout.gate \in {"confidence", "tier", "session"}
                 /\ gout.code = 403
                 /\ gout.detail = reason
       /\ reason # None =>
            /\ db = InitDb
            /\ orders = {}
            /\ \A w \in Workers : pc[w] = "idle" /\ txn[w] = << >>
            /\ resp.status \in {"none", "rejected"}
            /\ resp.status = "rejected" => resp.code = 403
       /\ reason = None => resp.status # "rejected"

\* a decision with confidence 50, a disallowed tier and a disallowed session
\* has been denied at the confidence gate and has left no row
C21_Witness ==
    /\ gin.req.confidence = 50
    /\ gin.req.tier = "C"
    /\ gin.req.psession = "LONDON"
    /\ gout.detail = "Denied: confidence gate"
    /\ resp.status = "rejected"
    /\ db.ledger = << >>

\* C22: ingest_decision denies every event whose regime is COMPRESSION and
\* whose stance is ENTER_LONG or ENTER_SHORT, and rejects every event whose
\* regime is outside the fixed set; an event so refused leaves no decision row
\* and no other row; an event of a listed symbol with a known regime and a
\* non-entering stance, and with nothing else wrong, is not refused.
C22_RegimeGovernance ==
    LET e == gin.req
        entering == e.stance \in {"ENTER_LONG", "ENTER_SHORT"}
        refused == e.regime \notin {"COMPRESSION", "EXPANSION", "NEUTRAL"}
                   \/ (e.regime = "COMPRESSION" /\ entering)
        otherwise_fine ==
            /\ e.symbol \in InitDb.symbol_whitelist
            /\ e.confidence = {}
            /\ e.exit_reason \in {"NONE", None, "TIME_DECAY"}
            /\ ~(e.exit_quality = "GOOD" /\ e.exit_reason = "NONE")
    IN /\ refused =>
            /\ db = InitDb
            /\ resp.status \in {"none", "rejected"}
            /\ resp.status = "rejected" => resp.code \in {400, 403, 422}
       /\ (~refused /\ otherwise_fine /\ e.stance \in Stances \ {"ENTER_LONG", "ENTER_SHORT"})
            => resp.status # "rejected"
       /\ \A i \in DOMAIN db.ledger :
            /\ db.ledger[i].regime \in {"COMPRESSION", "EXPANSION", "NEUTRAL"}
            /\ ~(db.ledger[i].regime = "COMPRESSION"
                 /\ db.ledger[i].stance \in {"ENTER_LONG", "ENTER_SHORT"})

\* an entering event in the COMPRESSION regime, with nothing else wrong, has
\* been refused; no row exists
C22_Witness ==
    /\ gin.req.regime = "COMPRESSION"
    /\ gin.req.stance = "ENTER_SHORT"
    /\ gin.req.symbol = "SPY"
    /\ gin.req.exit_quality = None
    /\ gin.req.exit_reason = "NONE"
    /\ gin.req.confidence = {}
    /\ resp.status = "rejected"
    /\ resp.code = 400
    /\ db.ledger = << >>

\* C23: ingest_decision refuses an event that carries an exit-quality value
\* while its exit reason is NONE, and an event whose exit reason is HUMAN_EXIT
\* when it carries no exit-quality value; the refused event is not persisted.
\* An exit-quality value with a reason other than NONE is not refused for it.
C23_ExitGovernance ==
    LET e == gin.req
        quality == e.exit_quality \notin {None, ""}
        refused == \/ quality /\ e.exit_reason = "NONE"
                   \/ e.exit_reason = "HUMAN_EXIT" /\ ~quality
        otherwise_fine ==
            /\ e.symbol \in InitDb.symbol_whitelist
            /\ e.confidence = {}
            /\ e.stance \in {"HOLD_LONG", "WAIT"}
            /\ e.regime \in {"COMPRESSION", "EXPANSION", "NEUTRAL"}
    IN /\ refused =>
            /\ db = InitDb
            /\ resp.status \in {"none", "rejected"}
            /\ resp.status = "rejected" => resp.code \in {400, 403, 422}
       /\ (quality /\ e.exit_reason = "TIME_DECAY" /\ otherwise_fine)
            => resp.status # "rejected"

\* an event with exit quality GOOD and exit reason NONE, and nothing else
\* wrong, has been refused; no row exists
C23_Witness ==
    /\ gin.req.exit_quality = "GOOD"
    /\ gin.req.exit_reason = "NONE"
    /\ gin.req.symbol = "SPY"
    /\ gin.req.stance = "HOLD_LONG"
    /\ gin.req.regime = "EXPANSION"
    /\ gin.req.confidence = {}
    /\ resp.status = "rejected"
    /\ resp.code = 400
    /\ db.ledger = << >>
    /\ db.regime_memory = Empty

\* C24: policy denial is never conflated with malformed input.  For
\* ingest_decision: an event that is refused although every field of it is
\* well-formed (its enumerated fields hold members of their vocabularies and
\* its confidence is in range) was refused by a governance gate (universe,
\* regime governance, exit governance) and is answered with the denied status
\* 403, and only a malformed event is answered with a client error.
C24_DenialNeverClientError ==
    LET e == gin.req
        well_formed ==
            /\ e.stance \in {"ENTER_LONG", "ENTER_SHORT", "HOLD_LONG", "HOLD_SHORT",
                             "HOLD_LONG_PAID", "HOLD_SHORT_PAID", "STAND_DOWN", "WAIT"}
            /\ e.regime \in {"COMPRESSION", "EXPANSION", "NEUTRAL"}
            /\ e.exit_reason \in {"CRYPTO_TIMEOUT", "DISTRIBUTION", "MOMENTUM_FADE",
                                  "REGIME_SHIFT", "HTF_CONFLICT", "TIME_DECAY", "NONE", None}
            /\ e.exit_quality \in {"EARLY", "GOOD", "LATE", None}
            /\ \A n \in e.confidence : 0 <= n /\ n <= 100
    IN resp.status = "rejected" =>
          IF well_formed THEN resp.code = 403 ELSE resp.code \in {400, 422}

\* whether an evaluator result expresses deny: False, a verdict key that says
\* no (allowed or ok false, deny true), or a pair headed by a deny verdict
ExpressesDeny(r) ==
    CASE r.shape = "bool" -> ~r.val
      [] r.shape = "dict" ->
            \/ r.key \in {"allowed", "ok"} /\ ~r.val
            \/ r.key = "deny" /\ r.val
      [] r.shape = "tuple" ->
            IF r.head = "bool" THEN ~r.val
            ELSE r.head \in {"DENY", " deny", "BLOCK", "REJECT", "NO"}
      [] OTHER -> FALSE

\* C25: the policy gate accepts the three result shapes: a decision that is
\* otherwise acceptable is denied (403, never recorded) exactly when the
\* evaluator's result expresses deny, and allowed otherwise; an absent result
\* or evaluator is ALLOW.
C25_PolicyShapes ==
    LET sm == gin.req.sm
        deny == sm.kind = "return" /\ ExpressesDeny(sm.result)
    IN /\ gout # NoGateResult =>
            IF deny
            THEN ~gout.passed /\ gout.gate = "policy" /\ gout.code = 403
            ELSE gout.passed
       /\ deny => db = InitDb /\ resp.status \in {"none", "rejected"}
       /\ ~deny => resp.status # "rejected"

\* C26: can_transition(current, target, role) holds exactly when target is
\* reachable from current in the transition table and is one of the states
\* the role may set: PENDING -> ACK by CONFIRM is illegal, CONFIRMED -> ACK by
\* CONFIRM is legal, READ (a role with no rule) makes no transition, and
\* nothing leaves REJECTED or VOIDED.
C26_LegalIffBothTablesPermit ==
    gout # NoGateResult =>
        LET reachable ==
                CASE gin.current = "PENDING" ->
                        gin.target \in {"CONFIRMED", "REJECTED", "FLAG_RISK", "VOIDED"}
                  [] gin.current = "CONFIRMED" -> gin.target \in {"ACK", "FLAG_RISK", "VOIDED"}
                  [] gin.current = "FLAG_RISK" ->
                        gin.target \in {"CONFIRMED", "REJECTED", "VOIDED"}
                  [] gin.current = "ACK" -> gin.target \in {"FLAG_RISK", "VOIDED"}
                  [] OTHER -> FALSE
            settable ==
                CASE gin.role = "ADMIN" ->
                        gin.target \in {"CONFIRMED", "REJECTED", "FLAG_RISK", "ACK", "VOIDED"}
                  [] gin.role = "CONFIRM" -> gin.target \in {"CONFIRMED", "FLAG_RISK", "ACK"}
                  [] OTHER -> FALSE
        IN /\ gout.passed <=> (reachable /\ settable)
           /\ (gin.current = "PENDING" /\ gin.target = "ACK") => ~gout.passed
           /\ (gin.current = "CONFIRMED" /\ gin.target = "ACK" /\ gin.role = "CONFIRM")
                => gout.passed
           /\ gin.role = "READ" => ~gout.passed

\* PENDING -> ACK has been asked for a CONFIRM actor and refused
C26_Witness ==
    /\ gin.current = "PENDING"
    /\ gin.target = "ACK"
    /\ gin.role = "CONFIRM"
    /\ gout.gate = "can_transition"
    /\ ~gout.passed

\* C27: every persisted decision has a negotiation record, created with status
\* PENDING by the request that persisted the decision and committed with it,
\* whether record_decision or ingest_decision persisted it.
C27_NegotiationWithDecision ==
    \A i \in DOMAIN db.ledger :
        /\ i \in DOMAIN db.negotiation
        /\ db.negotiation[i].call = db.ledger[i].call
        /\ db.negotiation[i].status = "PENDING"

\* the step in which worker w's set_setting commits
SettingCommitStep(w) == pc[w] = "ss_commit" /\ pc'[w] = "idle"

\* what the two resolvers read from tables d: the persisted value of the key
\* when a row exists, the process default otherwise
PersistedOrDefault(d) ==
    /\ effective_kill_switch(d) =
          IF "kill_switch" \in DOMAIN d.settings THEN d.settings["kill_switch"] = "true"
          ELSE ENV_KILL_SWITCH_DEFAULT
    /\ effective_market_mode(d) =
          IF "market_mode" \in DOMAIN d.settings THEN d.settings["market_mode"]
          ELSE ENV_MODE_DEFAULT

\* C28: effective_kill_switch and effective_market_mode return the persisted
\* value of their key when one exists and the process default otherwise; once
\* a set_setting(k, v) has committed, a read of k returns v, and it keeps
\* returning what it returned until the next set_setting on k commits.
C28_SettingsLayering ==
    [][/\ PersistedOrDefault(db)
       /\ PersistedOrDefault(db')
       /\ \A k \in {"kill_switch", "market_mode"} :
            LET committing == {w \in Workers : SettingCommitStep(w) /\ call[w].req.key = k}
            IN IF committing # {}
               THEN \A w \in committing : get_setting(db', k, "default") = call[w].req.value
               ELSE get_setting(db', k, "default") = get_setting(db, k, "default")]_vars

\* the kill switch has been persisted against its default and the market mode
\* has no row: the first is read from the table, the second from the default
C28_Witness ==
    /\ "kill_switch" \in DOMAIN db.settings
    /\ db.settings["kill_switch"] = "true"
    /\ ~ENV_KILL_SWITCH_DEFAULT
    /\ effective_kill_switch(db)
    /\ "market_mode" \notin DOMAIN db.settings
    /\ effective_market_mode(db) = "EQUITY"

\* C30: settings writes are linearizable per key.  Under every interleaving of
\* concurrent set_setting calls no call fails; two calls on one key never hold
\* their write at once, and a call that waits, waits for one that is about to
\* commit; each commit leaves the row of its key with the value it wrote and
\* every other row as it was, and nothing but a commit changes the table: the
\* value of a key is that of the write that committed last.
C30_WritesLinearizable ==
    [][/\ resp'.status # "error"
       /\ \A w \in Workers :
            SettingCommitStep(w) =>
                /\ resp'.status = "ok"
                /\ DOMAIN db'.settings = DOMAIN db.settings \cup {call[w].req.key}
                /\ db'.settings[call[w].req.key] = call[w].req.value
                /\ \A k \in DOMAIN db.settings \ {call[w].req.key} :
                        db'.settings[k] = db.settings[k]
       /\ (\A w \in Workers : ~SettingCommitStep(w)) => db'.settings = db.settings
       /\ \A w \in Workers, v \in Workers :
            (w # v /\ pc'[w] = "ss_commit" /\ pc'[v] = "ss_commit")
                => call'[w].req.key # call'[v].req.key
       /\ \A w \in Workers :
            pc'[w] = "ss_upsert" =>
                \/ \A v \in Workers \ {w} : \A i \in DOMAIN txn'[v] :
                        txn'[v][i].key # call'[w].req.key
                \/ \E v \in Workers \ {w} : pc'[v] = "ss_commit"]_vars

\* two calls on the kill switch with different values are in flight over a
\* persisted value: one holds its write, the other waits for it
C30_Witness ==
    /\ pc["w1"] = "ss_commit"
    /\ pc["w2"] = "ss_upsert"
    /\ call["w1"].req = [key |-> "kill_switch", value |-> "true"]
    /\ call["w2"].req = [key |-> "kill_switch", value |-> "false"]
    /\ "kill_switch" \in DOMAIN db.settings
    /\ db.settings["kill_switch"] = "false"

\* the credentials of a user configured as ADMIN
AdminCredentials(cred) == cred.user_id = "JAYLYN" /\ cred.user_token = "tokA"

\* C29: a persisted kill_switch or market_mode value is overwritten only by an
\* ADMIN toggle.  set_kill_switch and set_mode by a non-ADMIN actor (403), and
\* set_mode with a mode outside EQUITY, CRYPTO (400), are rejected and leave
\* the settings as they were; no row is ever removed; a row changes its value
\* only in a step of set_kill_switch or set_mode taken with ADMIN credentials;
\* an init_ledger that commits leaves both keys present, the keys that were
\* absent with the default and every existing value as it was.
C29_OverwrittenOnlyByAdminToggle ==
    [][/\ \A cred \in Credentials, enabled \in BOOLEAN :
            (set_kill_switch(enabled, cred) /\ ~AdminCredentials(cred))
                => db' = db /\ resp'.status = "rejected" /\ resp'.code = 403
       /\ \A cred \in Credentials, body_mode \in ModeBodies :
            /\ (set_mode(body_mode, cred) /\ ~AdminCredentials(cred))
                  => db' = db /\ resp'.status = "rejected" /\ resp'.code = 403
            /\ (set_mode(body_mode, cred) /\ AdminCredentials(cred)
                    /\ body_mode \notin {"EQUITY", "equity", "CRYPTO", "crypto"})
                  => db' = db /\ resp'.status = "rejected" /\ resp'.code = 400
       /\ \A k \in DOMAIN db.settings :
            /\ k \in DOMAIN db'.settings
            /\ db'.settings[k] # db.settings[k] =>
                 \/ /\ k = "kill_switch"
                    /\ \E cred \in Credentials, enabled \in BOOLEAN :
                          AdminCredentials(cred) /\ set_kill_switch(enabled, cred)
                 \/ /\ k = "market_mode"
                    /\ \E cred \in Credentials, body_mode \in ModeBodies :
                          AdminCredentials(cred) /\ set_mode(body_mode, cred)
       /\ \A w \in Workers :
            (pc[w] = "il_commit" /\ pc'[w] = "idle") =>
                /\ resp'.status = "ok"
                /\ DOMAIN db'.settings = {"kill_switch", "market_mode"}
                /\ "kill_switch" \notin DOMAIN db.settings
                      => db'.settings["kill_switch"] = "false"
                /\ "market_mode" \notin DOMAIN db.settings
                      => db'.settings["market_mode"] = "EQUITY"]_vars

\* init_ledger found the kill switch persisted against its default, left it,
\* and is about to commit the seed of the market mode alone
C29_Witness ==
    /\ pc["w1"] = "il_commit"
    /\ "kill_switch" \in DOMAIN db.settings
    /\ db.settings["kill_switch"] = "true"
    /\ Len(txn["w1"]) = 1
    /\ txn["w1"][1].key = "market_mode"
    /\ resp.status = "rejected"

\* C31: for every previous symbol state P and every event whose stance is
\* DENIED or STAND_DOWN, whatever its decision kind (EXIT included), the
\* transition function yields STAND_DOWN, and the reason names the stance.
C31_DeniedStanceStandsDown ==
    (gout # NoGateResult /\ gin.event.stance \in {"DENIED", "STAND_DOWN"}) =>
        /\ gout.next.state = "STAND_DOWN"
        /\ gout.next.reason = "stance " \o gin.event.stance

\* a DENIED event carrying an EXIT decision has been evaluated from
\* ACCUMULATING and landed in STAND_DOWN
C31_Witness ==
    /\ gout # NoGateResult
    /\ gin.prevState = "ACCUMULATING"
    /\ gin.event.stance = "DENIED"
    /\ gin.event.decision = "EXIT"
    /\ gout.next.state = "STAND_DOWN"

\* the event of gin reaches the governance checks and violates both: an
\* entering stance under COMPRESSION, and an exit quality with exit reason NONE
ViolatesRegimeAndExit ==
    /\ DecisionIngestValid(gin.req)
    /\ gin.req.symbol \in db.symbol_whitelist
    /\ gin.req.regime = "COMPRESSION"
    /\ gin.req.stance \in {"ENTER_LONG", "ENTER_SHORT"}
    /\ gin.req.exit_quality \in ExitQualities
    /\ gin.req.exit_reason = "NONE"

\* C32 as stated: ingest_decision evaluates the regime governance gate before
\* the exit governance gate, so an event that violates both is denied with
\* the regime reason, not the exit reason.
C32_RegimeReasonFirst ==
    (gout # NoGateResult /\ ViolatesRegimeAndExit) =>
        /\ gout.code = 400
        /\ gout.detail = "Cannot ENTER trades during COMPRESSION regime"

\* C32 amended: ingest_decision evaluates the exit governance gate before the
\* COMPRESSION check, so an event that violates both is denied with the exit
\* reason; an event that violates the COMPRESSION check alone is denied with
\* the regime reason.  Nothing of either event is persisted.
C32_ExitReasonFirst ==
    gout # NoGateResult =>
        /\ ViolatesRegimeAndExit =>
              /\ gout.code = 400
              /\ gout.detail = "exit_quality requires exit_reason"
              /\ db = InitDb
        /\ ( /\ DecisionIngestValid(gin.req)
             /\ gin.req.symbol \in db.symbol_whitelist
             /\ gin.req.regime = "COMPRESSION"
             /\ gin.req.stance \in {"ENTER_LONG", "ENTER_SHORT"}
             /\ gin.req.exit_quality = None ) =>
              /\ gout.code = 400
              /\ gout.detail = "Cannot ENTER trades during COMPRESSION regime"
              /\ db = InitDb

\* an ENTER_SHORT event under COMPRESSION with exit quality GOOD and exit
\* reason NONE has been answered 400 with the exit reason
C32_Witness ==
    /\ ViolatesRegimeAndExit
    /\ gin.req.stance = "ENTER_SHORT"
    /\ gout.gate = "ingest_decision"
    /\ gout.code = 400
    /\ gout.detail = "exit_quality requires exit_reason"

\* C33: every order submitted by record_decision belongs to a decision that
\* ends up persisted: once the request that submitted the order has returned
\* or raised, the decision_ledger holds its row.
C33_OrderOnlyForPersistedDecision ==
    \A c \in orders :
        \/ \E w \in Workers : pc[w] # "idle" /\ call[w].cid = c
        \/ CallRows(c) # {}

\* C34: every trade event refers to an existing trade in every reachable
\* state; an accepted decision that supplies a trade id for which no trade
\* row exists fails as an error, and no trade event, trade row or
\* decision_ledger row is persisted for it (nor is an order submitted).
C34_TradeEventsReferToTrades ==
    /\ \A i \in DOMAIN db.trade_events :
            db.trade_events[i].trade_id \in DOMAIN db.trades
    /\ \A i \in DOMAIN db.ledger :
            HasTradeId(db.ledger[i].trade_id) => db.ledger[i].trade_id \in DOMAIN db.trades
    /\ (HasTradeId(gin.req.trade_id) /\ gin.req.trade_id \notin DOMAIN InitDb.trades) =>
            /\ db = InitDb
            /\ orders = {}
            /\ pc["w1"] \in {"idle", "graph"}
            /\ resp.status \in {"none", "error"}
            /\ resp.status = "error" => resp.code = 500
            /\ (clock > 0 /\ pc["w1"] = "idle") => resp.status = "error"

\* a HOLD decision naming a trade that does not exist has passed the gates
\* and has been answered with an error
C34_Witness ==
    /\ gin.req.trade_id = UnknownTradeId
    /\ gin.req.decision = "HOLD"
    /\ gin.req.stance = "HOLD"
    /\ clock = 1
    /\ pc["w1"] = "idle"
    /\ resp.status = "error"
    /\ resp.handler = "record_decision"
    /\ db.trade_events = << >>

\* C35: no single decision both opens and closes a trade: the decision that
\* created a trade did not close it and wrote no EXIT event for it, so in
\* the state that decision commits the trade is OPEN with no EXIT event.
C35_NoOpenAndCloseInOneDecision ==
    \A t \in DOMAIN db.trades :
        /\ db.trades[t].closed_by # db.trades[t].call
        /\ \A i \in DOMAIN db.trade_events :
              ~( /\ db.trade_events[i].trade_id = t
                 /\ db.trade_events[i].event_type = "EXIT"
                 /\ db.trade_events[i].call = db.trades[t].call )

\* C36: the market_mode stored in a new trade's metadata is the mode under
\* which the universe gate admitted the trade's symbol, so the symbol of
\* every trade belongs to the allow-list of the trade's recorded mode, also
\* when an ADMIN set_mode call is interleaved with the record_decision call.
C36_TradeSymbolInRecordedMode ==
    \A t \in DOMAIN db.trades :
        IF db.trades[t].market_mode = "EQUITY"
        THEN db.trades[t].symbol \in EQUITY_SYMBOLS
        ELSE db.trades[t].market_mode = "CRYPTO" /\ db.trades[t].symbol \in CRYPTO_SYMBOLS

====
